---- MODULE Spec2Model ----
(***************************************************************************)
(* Verification model of the sectioning engine (src/src/sectioning.py)    *)
(* and the citation resolver (src/src/citation_linking.py).               *)
(*                                                                         *)
(* Strings are sequences of characters.  A character is a one-character   *)
(* string; the en dash and the em dash are the characters "ndash" and     *)
(* "mdash".  A dict is the sequence of its <<key, value>> items in        *)
(* insertion order.                                                        *)
(***************************************************************************)
EXTENDS Integers, Sequences, FiniteSets, TLC

VARIABLES
    \* the resolver: its arguments, its return value, the calls made so far
    section_map, citation, result, op, edits, first, between,
    \* split_into_sections: its argument, its locals, its return value
    text, lines, idx, current_key, sections, merged, warning, pc,
    \* the calls of split_into_sections so far, and the first of them
    calls, first_call,
    \* _looks_like_heading and _normalize_heading: their argument and their
    \* return values
    line, classified, is_heading, heading,
    \* classify_section_role: its arguments and its return value
    section_key, raw_text, role,
    \* get_citation_display_data and get_angle_citation_display_data: their
    \* first argument and their return value
    point, display, angle, angle_display,
    \* build_section_text_map and create_session_section_map: their arguments,
    \* the order in which this process iterates a set of names, and which of
    \* the two has put its map into section_map
    raw_sections, policy_result, hash_order, built,
    \* call_llm_json: its argument max_retries, its locals, the calls of the
    \* API and of time.sleep it has made, and what it returned
    max_retries, attempt, last_raw, api_calls, slept, parsed, llm_pc,
    \* the environment of the process, its settings, and the summary JSON that
    \* summarize_policy has written
    env, settings, disk

resolver_vars == <<section_map, citation, result, op, edits, first, between>>

call_vars == <<calls, first_call>>

sectioning_vars ==
    <<text, lines, idx, current_key, sections, merged, warning, pc, call_vars>>

heading_vars == <<line, classified, is_heading, heading>>

role_vars == <<section_key, raw_text, role>>

display_vars == <<point, display, angle, angle_display>>

session_vars == <<raw_sections, policy_result, hash_order, built>>

llm_vars == <<max_retries, attempt, last_raw, api_calls, slept, parsed, llm_pc>>

persist_vars == <<env, settings, disk>>

vars ==
    <<resolver_vars, sectioning_vars, heading_vars, role_vars, display_vars,
      session_vars, llm_vars, persist_vars>>

\* the variables of the functions added last
later_vars == <<session_vars, llm_vars, persist_vars>>

\* what a call of one function leaves alone: the variables of the others
outside_resolver ==
    <<sectioning_vars, heading_vars, role_vars, display_vars, later_vars>>

outside_sectioning ==
    <<resolver_vars, heading_vars, role_vars, display_vars, later_vars>>

outside_heading ==
    <<resolver_vars, sectioning_vars, role_vars, display_vars, later_vars>>

outside_role ==
    <<resolver_vars, sectioning_vars, heading_vars, display_vars, later_vars>>

outside_display ==
    <<sectioning_vars, heading_vars, role_vars, later_vars>>

(***************************************************************************)
(* Characters and the str methods the code uses                            *)
(***************************************************************************)
LowerSeq == <<"a", "b", "c", "d", "e", "f", "g", "h", "i", "j", "k", "l", "m", "n", "o", "p", "q", "r", "s", "t", "u", "v", "w", "x", "y", "z">>

UpperSeq == <<"A", "B", "C", "D", "E", "F", "G", "H", "I", "J", "K", "L", "M", "N", "O", "P", "Q", "R", "S", "T", "U", "V", "W", "X", "Y", "Z">>

LowerLetters == {LowerSeq[i] : i \in 1..26}

UpperLetters == {UpperSeq[i] : i \in 1..26}

\* the characters \s matches and str.strip() removes
Whitespace == {" ", "\t", "\n", "\r"}

\* None, where the code takes an Optional[str]
None == <<"None">>

UpperOf == [c \in LowerLetters |-> UpperSeq[CHOOSE i \in 1..26 : LowerSeq[i] = c]]

LowerOf == [c \in UpperLetters |-> LowerSeq[CHOOSE i \in 1..26 : UpperSeq[i] = c]]

\* str.upper(), one character
upper_char(c) == IF c \in LowerLetters THEN UpperOf[c] ELSE c

\* str.upper()
upper(s) == [i \in 1..Len(s) |-> upper_char(s[i])]

MinOf(S) == CHOOSE x \in S : \A y \in S : x <= y

MaxOf(S) == CHOOSE x \in S : \A y \in S : x >= y

\* the characters of s at the positions in keep, in order
RECURSIVE PickFrom(_, _, _)
PickFrom(s, keep, i) ==
    IF i > Len(s) THEN <<>>
    ELSE (IF i \in keep THEN <<s[i]>> ELSE <<>>) \o PickFrom(s, keep, i + 1)

\* str.strip()
strip(s) ==
    LET solid == {i \in 1..Len(s) : s[i] \notin Whitespace}
    IN  IF solid = {} THEN <<>> ELSE SubSeq(s, MinOf(solid), MaxOf(solid))

\* re.sub(r"\s+", " ", s): every maximal whitespace run becomes one space
sub_ws(s) ==
    LET keep == {i \in 1..Len(s) :
                    s[i] \notin Whitespace \/ i = 1 \/ s[i - 1] \notin Whitespace}
        one  == [i \in 1..Len(s) |-> IF s[i] \in Whitespace THEN " " ELSE s[i]]
    IN  PickFrom(one, keep, 1)

\* only the en dash is replaced
replace_dashes_en_only(s) ==
    [i \in 1..Len(s) |-> IF s[i] = "ndash" THEN "-" ELSE s[i]]

\* text.replace(en dash, "-").replace(em dash, "-")
replace_dashes(s) ==
    [i \in 1..Len(s) |-> IF s[i] \in {"ndash", "mdash"} THEN "-" ELSE s[i]]

\* str.startswith
startswith(s, p) == Len(p) <= Len(s) /\ SubSeq(s, 1, Len(p)) = p

\* p in s, for strings
contains(s, p) ==
    \E i \in 1..(Len(s) - Len(p) + 1) : SubSeq(s, i, i + Len(p) - 1) = p

\* number of consecutive characters of s from position p on that are in cls,
\* ignoring case
RunLen(s, p, cls) ==
    LET stops == {i \in p..Len(s) : upper_char(s[i]) \notin cls}
    IN  IF stops = {} THEN Len(s) + 1 - p ELSE MinOf(stops) - p

(***************************************************************************)
(* dict                                                                    *)
(***************************************************************************)
dict_keys(d) == [i \in 1..Len(d) |-> d[i][1]]

dict_has(d, k) == \E i \in 1..Len(d) : d[i][1] = k

dict_get(d, k) == d[CHOOSE i \in 1..Len(d) : d[i][1] = k][2]

\* d[k] = v: an existing key keeps its position and takes the new value
dict_set(d, k, v) ==
    IF dict_has(d, k)
    THEN [i \in 1..Len(d) |-> IF d[i][1] = k THEN <<k, v>> ELSE d[i]]
    ELSE Append(d, <<k, v>>)

(***************************************************************************)
(* citation_linking._normalize_key                                         *)
(***************************************************************************)
normalize_key(txt) ==
    IF txt = None \/ txt = <<>> THEN <<>>
    ELSE upper(strip(sub_ws(replace_dashes(txt))))

(***************************************************************************)
(* The patterns ^WORD\s+(CLASS+)\s*[seps]?\s*(rest)$ of both modules,      *)
(* matched as re.match does: greedy, backtracking in priority order.       *)
(* A candidate <<n, a, d, b>> takes n class characters, a whitespace       *)
(* characters, d separators and b whitespace characters; the rest must     *)
(* have at least minRest characters.  The strings matched hold no "\n".    *)
(***************************************************************************)
W_SECTION == <<"S", "E", "C", "T", "I", "O", "N">>

W_COVERAGE == <<"C", "O", "V", "E", "R", "A", "G", "E">>

RomanChars == {"I", "V", "X"}

LexGE(t, u) ==
    \/ t[1] > u[1]
    \/ t[1] = u[1] /\ t[2] > u[2]
    \/ t[1] = u[1] /\ t[2] = u[2] /\ t[3] > u[3]
    \/ t[1] = u[1] /\ t[2] = u[2] /\ t[3] = u[3] /\ t[4] >= u[4]

PatternMatch(s, word, cls, maxRun, seps, minRest) ==
    LET w    == Len(word)
        ws1  == IF startswith(upper(s), word) THEN RunLen(s, w + 1, Whitespace) ELSE 0
        p    == w + 1 + ws1
        run  == IF ws1 >= 1 THEN RunLen(s, p, cls) ELSE 0
        top  == IF run > maxRun THEN maxRun ELSE run
        all  == UNION {
                  UNION {
                    UNION {
                      { <<n, a, d, b>> : b \in 0..RunLen(s, p + n + a + d, Whitespace) }
                      : d \in {x \in 0..1 : x = 0 \/ (p + n + a <= Len(s) /\ s[p + n + a] \in seps)} }
                    : a \in 0..RunLen(s, p + n, Whitespace) }
                  : n \in 1..top }
        ok   == {t \in all : Len(s) - (p + t[1] + t[2] + t[3] + t[4]) + 1 >= minRest}
        best == CHOOSE t \in ok : \A u \in ok : LexGE(t, u)
        g    == p + best[1] + best[2] + best[3] + best[4]
    IN  IF ok = {} THEN [matched |-> FALSE, group1 |-> <<>>, rest |-> <<>>]
        ELSE [matched |-> TRUE,
              group1  |-> SubSeq(s, p, p + best[1] - 1),
              rest    |-> SubSeq(s, g, Len(s))]

\* re.match(r"^SECTION\s+[IVX]+\s*[-(en)(em)]?\s*(.+)$", s, re.IGNORECASE)
section_pattern(s) ==
    PatternMatch(s, W_SECTION, RomanChars, Len(s), {"-", "ndash", "mdash"}, 1)

(***************************************************************************)
(* citation_linking.find_section_for_citation                              *)
(***************************************************************************)
ReturnNone ==
    [status |-> "None", rung |-> "none", section_name |-> <<>>, section_text |-> <<>>]

KeyError ==
    [status |-> "KeyError", rung |-> "none", section_name |-> <<>>, section_text |-> <<>>]

\* the text is looked up under the normalized name
ReturnSection_normalized_lookup(rung, original_name, smap) ==
    IF dict_has(smap, upper(original_name))
    THEN [status |-> "match", rung |-> rung, section_name |-> original_name,
          section_text |-> dict_get(smap, upper(original_name))]
    ELSE KeyError

\* return {"section_name": original_name, "section_text": section_map[original_name]}
ReturnSection(rung, original_name, smap) ==
    IF dict_has(smap, original_name)
    THEN [status |-> "match", rung |-> rung, section_name |-> original_name,
          section_text |-> dict_get(smap, original_name)]
    ELSE KeyError

\* normalized_map[_normalize_key(section_name)] = section_name, for every key
RECURSIVE BuildNormalizedMap(_, _, _)
BuildNormalizedMap(smap, i, acc) ==
    IF i > Len(smap) THEN acc
    ELSE BuildNormalizedMap(smap, i + 1,
                            dict_set(acc, normalize_key(smap[i][1]), smap[i][1]))

\* the prefix rung tests containment
PrefixHits_contains(normalized_map, normalized_citation) ==
    {i \in 1..Len(normalized_map) :
        contains(normalized_map[i][1], normalized_citation)}

\* for norm_key, original_name in normalized_map.items():
\*     if norm_key.startswith(normalized_citation)
PrefixHits(normalized_map, normalized_citation) ==
    {i \in 1..Len(normalized_map) :
        startswith(normalized_map[i][1], normalized_citation)}

\* if normalized_citation in norm_key
SubstringHits(normalized_map, normalized_citation) ==
    {i \in 1..Len(normalized_map) :
        contains(normalized_map[i][1], normalized_citation)}

\* every section hits once the citation has the SECTION form
StructuralHits_any(normalized_map, extracted) ==
    {i \in 1..Len(normalized_map) : TRUE}

\* if extracted in norm_key or norm_key == extracted
StructuralHits(normalized_map, extracted) ==
    {i \in 1..Len(normalized_map) :
        \/ contains(normalized_map[i][1], extracted)
        \/ normalized_map[i][1] = extracted}

find_section_for_citation(cit, smap) ==
    IF cit = None \/ cit = <<>> \/ Len(smap) = 0 THEN ReturnNone
    ELSE
    LET normalized_citation == normalize_key(cit)
        normalized_map == BuildNormalizedMap(smap, 1, <<>>)
        prefixHits == PrefixHits(normalized_map, normalized_citation)
        substrHits == SubstringHits(normalized_map, normalized_citation)
        m          == section_pattern(normalized_citation)
        extracted  == upper(strip(m.rest))
        structHits == StructuralHits(normalized_map, extracted)
    IN  IF normalized_citation = <<>> THEN ReturnNone
        ELSE IF dict_has(normalized_map, normalized_citation)
        THEN ReturnSection("exact", dict_get(normalized_map, normalized_citation), smap)
        ELSE IF prefixHits # {}
        THEN ReturnSection("prefix", normalized_map[MinOf(prefixHits)][2], smap)
        ELSE IF substrHits # {}
        THEN ReturnSection("substring", normalized_map[MinOf(substrHits)][2], smap)
        ELSE IF m.matched /\ extracted # <<>> /\ structHits # {}
        THEN ReturnSection("structural", normalized_map[MinOf(structHits)][2], smap)
        ELSE ReturnNone

(***************************************************************************)
(* sectioning: heading normalisation helpers                               *)
(***************************************************************************)
UNKNOWN_SECTION_NAME == <<"U", "N", "K", "N", "O", "W", "N">>

W_EXCLUSIONS == <<"E", "X", "C", "L", "U", "S", "I", "O", "N", "S">>

W_CONDITIONS == <<"C", "O", "N", "D", "I", "T", "I", "O", "N", "S">>

W_PROPERTY_COVERAGES == <<"P", "R", "O", "P", "E", "R", "T", "Y", " ", "C", "O", "V", "E", "R", "A", "G", "E", "S">>

W_SECTION_I_PROPERTY_COVERAGES == <<"S", "E", "C", "T", "I", "O", "N", " ", "I", " ", "-", " ", "P", "R", "O", "P", "E", "R", "T", "Y", " ", "C", "O", "V", "E", "R", "A", "G", "E", "S">>

\* re.sub(r"\s+", " ", text.strip())
collapse_ws(txt) == sub_ws(strip(txt))

\* the em dash is kept
canonical_key_keeps_em_dash(raw) == upper(replace_dashes_en_only(collapse_ws(raw)))

canonical_key(raw) == upper(replace_dashes(collapse_ws(raw)))

HO3_HEADING_ALIASES ==
    <<
      <<<<"D", "E", "F", "I", "N", "I", "T", "I", "O", "N", "S">>,
        <<"D", "E", "F", "I", "N", "I", "T", "I", "O", "N", "S">>>>,
      <<<<"D", "E", "F", "I", "N", "I", "T", "I", "O", "N", "S", " ", "U", "S", "E", "D", " ", "I", "N", " ", "T", "H", "I", "S", " ", "P", "O", "L", "I", "C", "Y">>,
        <<"D", "E", "F", "I", "N", "I", "T", "I", "O", "N", "S">>>>,
      <<<<"D", "E", "F", "I", "N", "I", "T", "I", "O", "N", "S", " ", "U", "S", "E", "D", " ", "I", "N", " ", "T", "H", "I", "S", " ", "P", "O", "L", "I", "C", "Y", " ", "S", "E", "C", "T", "I", "O", "N", " ", "I", " ", "A", "N", "D", " ", "S", "E", "C", "T", "I", "O", "N", " ", "I", "I">>,
        <<"D", "E", "F", "I", "N", "I", "T", "I", "O", "N", "S">>>>,
      <<<<"S", "E", "C", "T", "I", "O", "N", " ", "I", " ", "-", " ", "E", "X", "C", "L", "U", "S", "I", "O", "N", "S">>,
        <<"E", "X", "C", "L", "U", "S", "I", "O", "N", "S">>>>,
      <<<<"S", "E", "C", "T", "I", "O", "N", " ", "I", " ", "E", "X", "C", "L", "U", "S", "I", "O", "N", "S">>,
        <<"E", "X", "C", "L", "U", "S", "I", "O", "N", "S">>>>,
      <<<<"E", "X", "C", "L", "U", "S", "I", "O", "N", "S">>,
        <<"E", "X", "C", "L", "U", "S", "I", "O", "N", "S">>>>,
      <<<<"S", "E", "C", "T", "I", "O", "N", " ", "I", " ", "-", " ", "C", "O", "N", "D", "I", "T", "I", "O", "N", "S">>,
        <<"C", "O", "N", "D", "I", "T", "I", "O", "N", "S">>>>,
      <<<<"S", "E", "C", "T", "I", "O", "N", " ", "I", " ", "C", "O", "N", "D", "I", "T", "I", "O", "N", "S">>,
        <<"C", "O", "N", "D", "I", "T", "I", "O", "N", "S">>>>,
      <<<<"C", "O", "N", "D", "I", "T", "I", "O", "N", "S">>,
        <<"C", "O", "N", "D", "I", "T", "I", "O", "N", "S">>>>,
      <<<<"C", "O", "V", "E", "R", "A", "G", "E", " ", "A", " ", "-", " ", "D", "W", "E", "L", "L", "I", "N", "G">>,
        <<"C", "O", "V", "E", "R", "A", "G", "E", " ", "A", " ", "-", " ", "D", "W", "E", "L", "L", "I", "N", "G">>>>,
      <<<<"C", "O", "V", "E", "R", "A", "G", "E", " ", "B", " ", "-", " ", "O", "T", "H", "E", "R", " ", "S", "T", "R", "U", "C", "T", "U", "R", "E", "S">>,
        <<"C", "O", "V", "E", "R", "A", "G", "E", " ", "B", " ", "-", " ", "O", "T", "H", "E", "R", " ", "S", "T", "R", "U", "C", "T", "U", "R", "E", "S">>>>,
      <<<<"C", "O", "V", "E", "R", "A", "G", "E", " ", "C", " ", "-", " ", "P", "E", "R", "S", "O", "N", "A", "L", " ", "P", "R", "O", "P", "E", "R", "T", "Y">>,
        <<"C", "O", "V", "E", "R", "A", "G", "E", " ", "C", " ", "-", " ", "P", "E", "R", "S", "O", "N", "A", "L", " ", "P", "R", "O", "P", "E", "R", "T", "Y">>>>,
      <<<<"C", "O", "V", "E", "R", "A", "G", "E", " ", "D", " ", "-", " ", "L", "O", "S", "S", " ", "O", "F", " ", "U", "S", "E">>,
        <<"C", "O", "V", "E", "R", "A", "G", "E", " ", "D", " ", "-", " ", "L", "O", "S", "S", " ", "O", "F", " ", "U", "S", "E">>>>
    >>

HeadingSeparators == {"-", "ndash", "mdash", ":"}

\* SECTION_RE.match(s): ^SECTION\s+([IVX]+)\s*[-(en)(em):]?\s*(.*)$, IGNORECASE
section_re(s) == PatternMatch(s, W_SECTION, RomanChars, Len(s), HeadingSeparators, 0)

\* COVERAGE_RE.match(s): ^COVERAGE\s+([A-Z])\s*[-(en)(em):]?\s*(.*)$, IGNORECASE
coverage_re(s) == PatternMatch(s, W_COVERAGE, UpperLetters, 1, HeadingSeparators, 0)

DigitChars == {"0", "1", "2", "3", "4", "5", "6", "7", "8", "9"}

\* [A-Z0-9\s,&()'/\-]
HeadingTailChars ==
    UpperLetters \cup DigitChars \cup Whitespace \cup {",", "&", "(", ")", "'", "/", "-"}

\* ALL_CAPS_HEADING_RE.match(s): ^[^a-z]*[A-Z][A-Z0-9\s,&()'/\-]*$
all_caps_heading_re(s) ==
    \E j \in 1..Len(s) :
        /\ s[j] \in UpperLetters
        /\ \A i \in 1..(j - 1) : s[i] \notin LowerLetters
        /\ \A i \in (j + 1)..Len(s) : s[i] \in HeadingTailChars

\* len(s.split())
word_count(s) ==
    Cardinality({i \in 1..Len(s) :
                    s[i] \notin Whitespace /\ (i = 1 \/ s[i - 1] \in Whitespace)})

\* CONDITIONS is looked for before EXCLUSIONS
normalize_heading_conditions_first(raw) ==
    LET key    == canonical_key(raw)
        ms     == section_re(key)
        srest  == upper(collapse_ws(ms.rest))
        mc     == coverage_re(key)
        letter == upper(mc.group1)
        crest  == upper(collapse_ws(mc.rest))
    IN  IF key = <<>> THEN UNKNOWN_SECTION_NAME
        ELSE IF dict_has(HO3_HEADING_ALIASES, key) THEN dict_get(HO3_HEADING_ALIASES, key)
        ELSE IF ms.matched
        THEN IF contains(srest, W_CONDITIONS) THEN W_CONDITIONS
             ELSE IF contains(srest, W_EXCLUSIONS) THEN W_EXCLUSIONS
             ELSE IF contains(srest, W_PROPERTY_COVERAGES) THEN W_SECTION_I_PROPERTY_COVERAGES
             ELSE key
        ELSE IF mc.matched
        THEN IF crest # <<>>
             THEN W_COVERAGE \o <<" ">> \o letter \o <<" ", "-", " ">> \o crest
             ELSE W_COVERAGE \o <<" ">> \o letter
        ELSE key

normalize_heading(raw) ==
    LET key    == canonical_key(raw)
        ms     == section_re(key)
        srest  == upper(collapse_ws(ms.rest))
        mc     == coverage_re(key)
        letter == upper(mc.group1)
        crest  == upper(collapse_ws(mc.rest))
    IN  IF key = <<>> THEN UNKNOWN_SECTION_NAME
        ELSE IF dict_has(HO3_HEADING_ALIASES, key) THEN dict_get(HO3_HEADING_ALIASES, key)
        ELSE IF ms.matched
        THEN IF contains(srest, W_EXCLUSIONS) THEN W_EXCLUSIONS
             ELSE IF contains(srest, W_CONDITIONS) THEN W_CONDITIONS
             ELSE IF contains(srest, W_PROPERTY_COVERAGES) THEN W_SECTION_I_PROPERTY_COVERAGES
             ELSE key
        ELSE IF mc.matched
        THEN IF crest # <<>>
             THEN W_COVERAGE \o <<" ">> \o letter \o <<" ", "-", " ">> \o crest
             ELSE W_COVERAGE \o <<" ">> \o letter
        ELSE key

\* the patterns are matched without re.IGNORECASE
explicit_pattern_case_sensitive(stripped) ==
    /\ stripped = upper(stripped)
    /\ section_re(stripped).matched \/ coverage_re(stripped).matched

\* SECTION_RE.match(stripped) or COVERAGE_RE.match(stripped)
explicit_pattern(stripped) ==
    section_re(stripped).matched \/ coverage_re(stripped).matched

\* lines of any length pass
looks_like_heading_any_length(ln) ==
    LET stripped == strip(ln)
    IN  IF stripped = <<>> THEN FALSE
        ELSE IF explicit_pattern(stripped) THEN TRUE
        ELSE IF \E i \in 1..Len(stripped) : stripped[i] \in LowerLetters THEN FALSE
        ELSE IF \E i \in 1..Len(stripped) : stripped[i] = "." THEN FALSE
        ELSE IF ~all_caps_heading_re(stripped) THEN FALSE
        ELSE IF word_count(stripped) > 12 THEN FALSE
        ELSE TRUE

looks_like_heading(ln) ==
    LET stripped == strip(ln)
    IN  IF stripped = <<>> THEN FALSE
        ELSE IF explicit_pattern(stripped) THEN TRUE
        ELSE IF Len(stripped) < 5 THEN FALSE
        ELSE IF Len(stripped) > 90 THEN FALSE
        ELSE IF \E i \in 1..Len(stripped) : stripped[i] \in LowerLetters THEN FALSE
        ELSE IF \E i \in 1..Len(stripped) : stripped[i] = "." THEN FALSE
        ELSE IF ~all_caps_heading_re(stripped) THEN FALSE
        ELSE IF word_count(stripped) > 12 THEN FALSE
        ELSE TRUE

(***************************************************************************)
(* sectioning.split_into_sections, the parts of it                         *)
(***************************************************************************)
\* str.splitlines(): lines end at "\n", "\r" and "\r\n"; no line after the
\* last line end
RECURSIVE splitlines_from(_, _, _)
splitlines_from(s, i, cur) ==
    IF i > Len(s) THEN (IF cur = <<>> THEN <<>> ELSE <<cur>>)
    ELSE IF s[i] = "\r" /\ i < Len(s) /\ s[i + 1] = "\n"
    THEN <<cur>> \o splitlines_from(s, i + 2, <<>>)
    ELSE IF s[i] \in {"\n", "\r"}
    THEN <<cur>> \o splitlines_from(s, i + 1, <<>>)
    ELSE splitlines_from(s, i + 1, Append(cur, s[i]))

splitlines(s) == splitlines_from(s, 1, <<>>)

\* "\n".join(body_lines)
RECURSIVE join_lines(_)
join_lines(ls) ==
    IF Len(ls) = 0 THEN <<>>
    ELSE IF Len(ls) = 1 THEN ls[1]
    ELSE ls[1] \o <<"\n">> \o join_lines(Tail(ls))

\* merged[key] = body for every key, also when the body is empty
RECURSIVE merge_sections_keeps_empty(_, _, _)
merge_sections_keeps_empty(secs, i, acc) ==
    IF i > Len(secs) THEN acc
    ELSE merge_sections_keeps_empty(secs, i + 1,
                                    dict_set(acc, secs[i][1], strip(join_lines(secs[i][2]))))

\* merged[key] = body for every key whose body, joined and stripped, is not empty
RECURSIVE merge_sections(_, _, _)
merge_sections(secs, i, acc) ==
    IF i > Len(secs) THEN acc
    ELSE LET body == strip(join_lines(secs[i][2]))
         IN  merge_sections(secs, i + 1,
                            IF body # <<>> THEN dict_set(acc, secs[i][1], body) ELSE acc)

\* sum(len(chunk) for chunk in merged.values())
RECURSIVE total_len(_)
total_len(m) == IF Len(m) = 0 THEN 0 ELSE Len(m[1][2]) + total_len(Tail(m))

\* the UNKNOWN warning is printed: total_len > 0 and unknown_len / total_len >= 0.30
unknown_warning(m) ==
    LET unknown_len == IF dict_has(m, UNKNOWN_SECTION_NAME)
                       THEN Len(dict_get(m, UNKNOWN_SECTION_NAME)) ELSE 0
    IN  total_len(m) > 0 /\ 10 * unknown_len >= 3 * total_len(m)

(***************************************************************************)
(* sectioning: what split_into_sections prints.  print is rich.print,      *)
(* which reads its argument as console markup: [name] opens a style,       *)
(* [/name] closes the nearest open style of that name, [/] the last one    *)
(* opened, and a closing tag that closes nothing raises MarkupError.       *)
(* Style names are compared trimmed and in lowercase, which is what rich   *)
(* does with names that are no style definitions; handler tags ([@...])    *)
(* are not among the inputs.                                               *)
(***************************************************************************)
\* the characters in the order of their code points (the grave accent, which
\* no input holds, is left out)
CharsInOrder ==
    <<"\t", "\n", "\r", " ", "!", "\"", "#", "$", "%", "&", "'", "(", ")", "*", "+", ",", "-", ".", "/", "0", "1", "2", "3", "4", "5", "6", "7", "8", "9", ":", ";", "<", "=", ">", "?", "@", "A", "B", "C", "D", "E", "F", "G", "H", "I", "J", "K", "L", "M", "N", "O", "P", "Q", "R", "S", "T", "U", "V", "W", "X", "Y", "Z", "[", "\\", "]", "^", "_", "a", "b", "c", "d", "e", "f", "g", "h", "i", "j", "k", "l", "m", "n", "o", "p", "q", "r", "s", "t", "u", "v", "w", "x", "y", "z", "{", "|", "}", "~", "ndash", "mdash">>

code(c) == CHOOSE i \in 1..Len(CharsInOrder) : CharsInOrder[i] = c

\* a < b, for strings
str_lt(a, b) ==
    \/ Len(a) < Len(b) /\ SubSeq(b, 1, Len(a)) = a
    \/ \E i \in 1..MinOf({Len(a), Len(b)}) :
          /\ SubSeq(a, 1, i - 1) = SubSeq(b, 1, i - 1)
          /\ code(a[i]) < code(b[i])

\* sorted(keys), for distinct keys
RECURSIVE sorted(_)
sorted(keys) ==
    IF Len(keys) = 0 THEN <<>>
    ELSE LET m == CHOOSE i \in 1..Len(keys) :
                     \A j \in 1..Len(keys) : j = i \/ str_lt(keys[i], keys[j])
         IN  <<keys[m]>> \o sorted(SubSeq(keys, 1, m - 1) \o SubSeq(keys, m + 1, Len(keys)))

\* ", ".join(names)
RECURSIVE join_names(_)
join_names(names) ==
    IF Len(names) = 0 THEN <<>>
    ELSE IF Len(names) = 1 THEN names[1]
    ELSE names[1] \o <<",", " ">> \o join_names(Tail(names))

\* str.lower()
lower(s) == [i \in 1..Len(s) |-> IF s[i] \in UpperLetters THEN LowerOf[s[i]] ELSE s[i]]

\* RE_TAGS, (\\*)\[([a-z#/@][^[]*?)]: the position of the "]" that ends the tag
\* opening at position i of s, or 0 if no tag opens there
tag_end(s, i) ==
    LET ends == {j \in (i + 2)..Len(s) :
                    /\ s[j] = "]"
                    /\ \A k \in (i + 2)..(j - 1) : s[k] \notin {"[", "]"}}
    IN  IF /\ s[i] = "["
           /\ i < Len(s)
           /\ s[i + 1] \in LowerLetters \cup {"#", "/", "@"}
           /\ ends # {}
        THEN MinOf(ends) ELSE 0

\* an odd number of backslashes before position i escapes the tag
tag_escaped(s, i) ==
    LET stops == {j \in 1..(i - 1) : s[j] # "\\"}
        run   == IF stops = {} THEN i - 1 ELSE i - 1 - MaxOf(stops)
    IN  run % 2 = 1

\* tag_text.partition("=")[0]
tag_name(tag_text) ==
    LET eqs == {j \in 1..Len(tag_text) : tag_text[j] = "="}
    IN  IF eqs = {} THEN tag_text ELSE SubSeq(tag_text, 1, MinOf(eqs) - 1)

\* Style.normalize, for names that are no style definitions
style_normalize(name) == lower(strip(name))

\* rich.markup.render(markup) raises MarkupError, read from position i on
\* with the styles of style_stack open
RECURSIVE render_raises(_, _, _)
render_raises(markup, i, style_stack) ==
    IF i > Len(markup) THEN FALSE
    ELSE IF tag_end(markup, i) = 0 THEN render_raises(markup, i + 1, style_stack)
    ELSE IF tag_escaped(markup, i)
    THEN render_raises(markup, tag_end(markup, i) + 1, style_stack)
    ELSE LET name == tag_name(SubSeq(markup, i + 1, tag_end(markup, i) - 1))
             style_name == style_normalize(Tail(name))
             open == {k \in 1..Len(style_stack) : style_stack[k] = style_name}
             next == tag_end(markup, i) + 1
         IN  IF name[1] # "/"
             THEN render_raises(markup, next, Append(style_stack, style_normalize(name)))
             ELSE IF strip(Tail(name)) = <<>>
             THEN IF style_stack = <<>> THEN TRUE
                  ELSE render_raises(markup, next,
                                     SubSeq(style_stack, 1, Len(style_stack) - 1))
             ELSE IF open = {} THEN TRUE
             ELSE render_raises(markup, next,
                                SubSeq(style_stack, 1, MaxOf(open) - 1)
                                \o SubSeq(style_stack, MaxOf(open) + 1, Len(style_stack)))

\* print(markup) raises MarkupError
print_raises(markup) == render_raises(markup, 1, <<>>)

PreviewLen == 400

M_preview_open == <<"[", "y", "e", "l", "l", "o", "w", "]", "[", "s", "e", "c", "t", "i", "o", "n", "i", "n", "g", "]", " ", "U", "N", "K", "N", "O", "W", "N", " ", "p", "r", "e", "v", "i", "e", "w", ":", " ">>

M_yellow_close == <<"[", "/", "y", "e", "l", "l", "o", "w", "]">>

M_detected == <<"[", "g", "r", "e", "e", "n", "]", "[", "s", "e", "c", "t", "i", "o", "n", "i", "n", "g", "]", " ", "D", "e", "t", "e", "c", "t", "e", "d", " ", "s", "e", "c", "t", "i", "o", "n", "s", ":", "[", "/", "g", "r", "e", "e", "n", "]", " ">>

\* merged.get(UNKNOWN_SECTION_NAME, "")
unknown_text(m) ==
    IF dict_has(m, UNKNOWN_SECTION_NAME) THEN dict_get(m, UNKNOWN_SECTION_NAME) ELSE <<>>

\* preview = _collapse_ws(unknown_text[:400])
preview(m) ==
    collapse_ws(SubSeq(unknown_text(m), 1, MinOf({PreviewLen, Len(unknown_text(m))})))

\* the second line of the warning, printed if preview is not empty
preview_markup(m) == M_preview_open \o preview(m) \o M_yellow_close

\* the summary of the sections detected, printed by every call
summary_markup(m) == M_detected \o join_names(sorted(dict_keys(m)))

\* how the prints after the merge end: the first line of the warning holds
\* numbers only and always prints
print_outcome(m) ==
    IF unknown_warning(m) /\ preview(m) # <<>> /\ print_raises(preview_markup(m))
    THEN "MarkupError in preview"
    ELSE IF print_raises(summary_markup(m)) THEN "MarkupError in summary"
    ELSE "done"

(***************************************************************************)
(* Inputs of the resolver: section names as a document or a caller may     *)
(* give them, and citations as the report generator may write them         *)
(***************************************************************************)
MaxKeys == 2

MaxEdits == 2

K_COVERAGE_A_DWELLING == <<"C", "O", "V", "E", "R", "A", "G", "E", " ", "A", " ", "-", " ", "D", "W", "E", "L", "L", "I", "N", "G">>

K_COVERAGE_A == <<"C", "O", "V", "E", "R", "A", "G", "E", " ", "A">>

K_EXCLUSIONS == <<"E", "X", "C", "L", "U", "S", "I", "O", "N", "S">>

K_Exclusions == <<"E", "x", "c", "l", "u", "s", "i", "o", "n", "s">>

K_GENERAL_EXCLUSIONS == <<"G", "E", "N", "E", "R", "A", "L", " ", "E", "X", "C", "L", "U", "S", "I", "O", "N", "S">>

K_CONDITIONS == <<"C", "O", "N", "D", "I", "T", "I", "O", "N", "S">>

KeyPool ==
    <<K_COVERAGE_A_DWELLING, K_COVERAGE_A, K_EXCLUSIONS, K_Exclusions,
      K_GENERAL_EXCLUSIONS, K_CONDITIONS>>

Digits == <<"1", "2", "3", "4", "5", "6", "7", "8", "9">>

\* the text of the i-th section name: distinct for distinct names
ItemOf(i) == <<KeyPool[i], <<"t", Digits[i]>> >>

RECURSIVE MapsOfLen(_)
MapsOfLen(n) ==
    IF n = 0 THEN { <<>> }
    ELSE { Append(p[1], ItemOf(p[2])) :
             p \in {q \in MapsOfLen(n - 1) \X (1..Len(KeyPool)) :
                       ~dict_has(q[1], KeyPool[q[2]])} }

SectionMaps == UNION {MapsOfLen(n) : n \in 0..MaxKeys}

C_Coverage_A == <<"C", "o", "v", "e", "r", "a", "g", "e", " ", "A">>

C_exclusions == <<"e", "x", "c", "l", "u", "s", "i", "o", "n", "s">>

C_EXCL == <<"E", "X", "C", "L">>

C_Section_I_Exclusions == <<"S", "e", "c", "t", "i", "o", "n", " ", "I", " ", "-", " ", "E", "x", "c", "l", "u", "s", "i", "o", "n", "s">>

C_COVERAGE_Z == <<"C", "O", "V", "E", "R", "A", "G", "E", " ", "Z", " ", "-", " ", "N", "O", "N", "E", "X", "I", "S", "T", "E", "N", "T">>

C_Coverage_A_ndash == <<"C", "o", "v", "e", "r", "a", "g", "e", " ", "A", " ", "ndash", " ", "D", "w", "e", "l", "l", "i", "n", "g">>

C_Section_II == <<"S", "e", "c", "t", "i", "o", "n", " ", "I", "I">>

C_blank == <<" ", "\t">>

C_Coverage_A_dash == <<"C", "o", "v", "e", "r", "a", "g", "e", " ", "A", " ", "ndash">>

C_Section_I_Excl == <<"S", "e", "c", "t", "i", "o", "n", " ", "I", "-", "E", "x", "c", "l">>

Citations ==
    { None, <<>>, C_blank, C_Coverage_A, C_exclusions, C_EXCL,
      C_Section_I_Exclusions, C_COVERAGE_Z, C_Coverage_A_ndash, C_Section_II }

(***************************************************************************)
(* Citations that differ from s in one place only: the case of a letter,   *)
(* the dash variant, a whitespace character at either end, or the length   *)
(* of a whitespace run                                                     *)
(***************************************************************************)
Dashes == {"-", "ndash", "mdash"}

toggle_case(c) ==
    IF c \in LowerLetters THEN UpperOf[c]
    ELSE IF c \in UpperLetters THEN LowerOf[c] ELSE c

SetAt(s, i, c) == [j \in 1..Len(s) |-> IF j = i THEN c ELSE s[j]]

InsertAt(s, i, c) == SubSeq(s, 1, i - 1) \o <<c>> \o SubSeq(s, i, Len(s))

RemoveAt(s, i) == SubSeq(s, 1, i - 1) \o SubSeq(s, i + 1, Len(s))

\* position i of s, 1..Len(s)+1, is at an end of s or next to whitespace
AtWhitespace(s, i) ==
    \/ i = 1
    \/ i = Len(s) + 1
    \/ s[i - 1] \in Whitespace
    \/ s[i] \in Whitespace

\* s[i] is whitespace that is not the only separator between two words
SpareWhitespace(s, i) ==
    /\ s[i] \in Whitespace
    /\ \/ i = 1
       \/ i = Len(s)
       \/ s[i - 1] \in Whitespace
       \/ s[i + 1] \in Whitespace

Variants(s) ==
    IF s = None THEN {}
    ELSE  {SetAt(s, i, toggle_case(s[i])) : i \in 1..Len(s)}
    \cup {SetAt(s, p[1], p[2]) :
             p \in {q \in (1..Len(s)) \X Dashes : s[q[1]] \in Dashes}}
    \cup {InsertAt(s, p[1], p[2]) :
             p \in {q \in (1..(Len(s) + 1)) \X {" ", "\t"} : AtWhitespace(s, q[1])}}
    \cup {RemoveAt(s, i) : i \in {j \in 1..Len(s) : SpareWhitespace(s, j)}}

(***************************************************************************)
(* The resolver at render time: one section map per analysis; the          *)
(* citations of the report are resolved against it one call at a time      *)
(***************************************************************************)
NoCall == [citation |-> None, result |-> ReturnNone]

\* no call of split_into_sections has returned
NoOutcome == [text |-> None, pc |-> "idle", merged |-> <<>>, warning |-> FALSE]

\* no document is being split
SectioningIdle ==
    /\ text = <<>>
    /\ lines = <<>>
    /\ idx = 0
    /\ current_key = UNKNOWN_SECTION_NAME
    /\ sections = <<>>
    /\ merged = <<>>
    /\ warning = FALSE
    /\ pc = "idle"
    /\ calls = 0
    /\ first_call = NoOutcome

\* no line is being classified
HeadingIdle ==
    /\ line = <<>>
    /\ classified = FALSE
    /\ is_heading = FALSE
    /\ heading = None

\* no section is being classified
RoleIdle ==
    /\ section_key = None
    /\ raw_text = None
    /\ role = "none"

\* nothing is being rendered
NoDisplay ==
    [raised |-> FALSE, point_text |-> <<>>, citation_text |-> None,
     has_linkable_citation |-> FALSE, section_name |-> None, section_text |-> None]

NoAngleDisplay ==
    [raised |-> FALSE, angle_text |-> <<>>, linked_citations |-> <<>>,
     unlinked_citations |-> <<>>]

\* no point and no angle has been handed over
NotCalled == <<"not called">>

NoPoint == [text |-> NotCalled, citation |-> NotCalled]

NoAngle == [text |-> NotCalled, citations |-> [given |-> "not called", list |-> <<>>]]

DisplayIdle ==
    /\ point = NoPoint
    /\ display = NoDisplay
    /\ angle = NoAngle
    /\ angle_display = NoAngleDisplay

\* no map is being built
NoPolicy == [sections_substantive |-> <<>>, sections_meta |-> <<>>]

SessionIdle ==
    /\ raw_sections = <<>>
    /\ policy_result = NoPolicy
    /\ hash_order = <<>>
    /\ built = "no"

\* the LLM is not being called
NoValue == [type |-> "none", items |-> <<>>]

LLMIdle ==
    /\ max_retries = 0
    /\ attempt = 0
    /\ last_raw = None
    /\ api_calls = <<>>
    /\ slept = <<>>
    /\ parsed = NoValue
    /\ llm_pc = "idle"

\* no policy is being summarized
NoEnv == [SAFE_MODE |-> None, PERSIST_RAW_TEXT |-> None, OPENAI_API_KEY |-> None]

NoSettings == [status |-> "none", safe_mode |-> FALSE, persist_raw_text |-> FALSE]

PersistIdle ==
    /\ env = NoEnv
    /\ settings = NoSettings
    /\ disk = <<>>

LaterIdle == SessionIdle /\ LLMIdle /\ PersistIdle

\* no citation is being resolved
ResolverIdle ==
    /\ section_map = <<>>
    /\ citation = None
    /\ result = ReturnNone
    /\ op = "init"
    /\ edits = 0
    /\ first = NoCall
    /\ between = FALSE

Init ==
    /\ section_map \in SectionMaps
    /\ citation = None
    /\ result = ReturnNone
    /\ op = "init"
    /\ edits = 0
    /\ first = NoCall
    /\ between = FALSE
    /\ SectioningIdle
    /\ HeadingIdle
    /\ RoleIdle
    /\ DisplayIdle
    /\ LaterIdle

\* a call that normalizes the names of section_map in place
Resolve_in_place(c) ==
    /\ citation' = c
    /\ result' = find_section_for_citation(c, section_map)
    /\ op' = IF op = "init" THEN "first" ELSE "resolve"
    /\ edits' = 0
    /\ first' = IF op = "init" THEN [citation |-> c, result |-> result'] ELSE first
    /\ between' = (between \/ (op # "init" /\ c # first.citation))
    /\ section_map' = [i \in 1..Len(section_map) |->
                          <<normalize_key(section_map[i][1]), section_map[i][2]>>]
    /\ UNCHANGED outside_resolver

\* find_section_for_citation(c, section_map).  The first call is remembered,
\* and whether a call with another citation came after it.
Resolve(c) ==
    /\ citation' = c
    /\ result' = find_section_for_citation(c, section_map)
    /\ op' = IF op = "init" THEN "first" ELSE "resolve"
    /\ edits' = 0
    /\ first' = IF op = "init" THEN [citation |-> c, result |-> result'] ELSE first
    /\ between' = (between \/ (op # "init" /\ c # first.citation))
    /\ UNCHANGED <<section_map, outside_resolver>>

Next == \E c \in Citations : Resolve(c)

Spec == Init /\ [][Next]_vars

\* the citations of a report differing in spelling only: after the first
\* call every call takes a citation one edit away from the last one
ResolveVariant ==
    /\ op # "init"
    /\ edits < MaxEdits
    /\ \E v \in Variants(citation) :
          /\ citation' = v
          /\ result' = find_section_for_citation(v, section_map)
    /\ op' = "variant"
    /\ edits' = edits + 1
    /\ UNCHANGED <<section_map, first, between, outside_resolver>>

VariantCitations == {C_blank, C_exclusions, C_Coverage_A_dash, C_Section_I_Excl}

VariantKeys == {K_COVERAGE_A_DWELLING, K_EXCLUSIONS, K_Exclusions}

InitVariants ==
    /\ Init
    /\ \A i \in 1..Len(section_map) : section_map[i][1] \in VariantKeys

NextVariants ==
    \/ op = "init" /\ \E c \in VariantCitations : Resolve(c)
    \/ ResolveVariant

SpecVariants == InitVariants /\ [][NextVariants]_vars

(***************************************************************************)
(* split_into_sections(text), one line of the document at a time           *)
(***************************************************************************)
MaxLines == 3

L_COVERAGE_A == <<"C", "O", "V", "E", "R", "A", "G", "E", " ", "A">>

L_Dwelling_text == <<"D", "w", "e", "l", "l", "i", "n", "g", " ", "t", "e", "x", "t", " ", "h", "e", "r", "e", ".">>

L_DECLARATIONS == <<"D", "E", "C", "L", "A", "R", "A", "T", "I", "O", "N", "S">>

L_We_cover == <<" ", " ", "W", "e", " ", "c", "o", "v", "e", "r", ".", " ">>

L_Section_I_Exclusions == <<"S", "e", "c", "t", "i", "o", "n", " ", "I", " ", "-", " ", "E", "x", "c", "l", "u", "s", "i", "o", "n", "s">>

L_UNKNOWN == <<"U", "N", "K", "N", "O", "W", "N">>

\* text in square brackets, as extracted from a form
L_bracketed == <<"n", "/", "a", " ", "[", "/", "x", "]">>

L_SECTION_bracketed == <<"S", "E", "C", "T", "I", "O", "N", " ", "V", " ", "[", "/", "x", "]">>

LinePool ==
    { L_COVERAGE_A, L_Dwelling_text, L_DECLARATIONS, L_We_cover, <<>>,
      L_Section_I_Exclusions, L_UNKNOWN, L_bracketed, L_SECTION_bracketed }

\* the documents of n lines
DocumentsOfLen(n) == [1..n -> LinePool]

\* the extracted text of a document: its lines, each ended by a line feed
\* except the last
Texts == UNION { {join_lines(d) : d \in DocumentsOfLen(n)} : n \in 0..MaxLines }

\* the text of a document, or None where the extraction gave none
InitSectioning ==
    /\ text \in Texts \cup {None}
    /\ lines = <<>>
    /\ idx = 0
    /\ current_key = UNKNOWN_SECTION_NAME
    /\ sections = <<>>
    /\ merged = <<>>
    /\ warning = FALSE
    /\ pc = "start"
    /\ calls = 1
    /\ first_call = NoOutcome
    /\ ResolverIdle
    /\ HeadingIdle
    /\ RoleIdle
    /\ DisplayIdle
    /\ LaterIdle

\* current_key = heading or UNKNOWN_SECTION_NAME
heading_key(ln) ==
    IF normalize_heading(ln) # <<>> THEN normalize_heading(ln) ELSE UNKNOWN_SECTION_NAME

\* sections with an empty list for key, also when key has a list already
open_section_resets(secs, key) ==
    IF dict_has(secs, key)
    THEN [n \in 1..Len(secs) |-> IF secs[n][1] = key THEN <<key, <<>> >> ELSE secs[n]]
    ELSE dict_set(secs, key, <<>>)

\* sections with an empty list for key, if key is new
open_section(secs, key) ==
    IF dict_has(secs, key) THEN secs ELSE dict_set(secs, key, <<>>)

\* the buffers of the last call are kept
SplitStart_keeps_sections ==
    /\ pc = "start"
    /\ IF text = None
       THEN /\ pc' = "AttributeError"
            /\ UNCHANGED <<lines, current_key, sections, idx>>
       ELSE /\ lines' = splitlines(text)
            /\ current_key' = UNKNOWN_SECTION_NAME
            /\ sections' = open_section(sections, UNKNOWN_SECTION_NAME)
            /\ idx' = 1
            /\ pc' = "loop"
    /\ UNCHANGED <<text, merged, warning, call_vars, outside_sectioning>>

\* lines = text.splitlines(), which raises AttributeError if text is None;
\* sections[UNKNOWN] = []
SplitStart ==
    /\ pc = "start"
    /\ IF text = None
       THEN /\ pc' = "AttributeError"
            /\ UNCHANGED <<lines, current_key, sections, idx>>
       ELSE /\ lines' = splitlines(text)
            /\ current_key' = UNKNOWN_SECTION_NAME
            /\ sections' = << <<UNKNOWN_SECTION_NAME, <<>> >> >>
            /\ idx' = 1
            /\ pc' = "loop"
    /\ UNCHANGED <<text, merged, warning, call_vars, outside_sectioning>>

\* a heading line that is also kept in the body of its section
SplitHeading_keeps_line ==
    /\ pc = "loop"
    /\ idx <= Len(lines)
    /\ looks_like_heading(lines[idx])
    /\ current_key' = heading_key(lines[idx])
    /\ sections' = dict_set(open_section(sections, current_key'), current_key',
                            Append(dict_get(open_section(sections, current_key'),
                                            current_key'), lines[idx]))
    /\ idx' = idx + 1
    /\ UNCHANGED <<text, lines, merged, warning, pc, call_vars, outside_sectioning>>

\* the line is a heading: current_key = heading or UNKNOWN, with an empty
\* list if the key is new; the line itself is not kept
SplitHeading ==
    /\ pc = "loop"
    /\ idx <= Len(lines)
    /\ looks_like_heading(lines[idx])
    /\ current_key' = heading_key(lines[idx])
    /\ sections' = open_section(sections, current_key')
    /\ idx' = idx + 1
    /\ UNCHANGED <<text, lines, merged, warning, pc, call_vars, outside_sectioning>>

\* the line replaces what its section held
SplitBody_overwrites ==
    /\ pc = "loop"
    /\ idx <= Len(lines)
    /\ ~looks_like_heading(lines[idx])
    /\ sections' = dict_set(sections, current_key, <<lines[idx]>>)
    /\ idx' = idx + 1
    /\ UNCHANGED <<text, lines, current_key, merged, warning, pc, call_vars, outside_sectioning>>

\* any other line: sections[current_key].append(line)
SplitBody ==
    /\ pc = "loop"
    /\ idx <= Len(lines)
    /\ ~looks_like_heading(lines[idx])
    /\ sections' = dict_set(sections, current_key,
                            Append(dict_get(sections, current_key), lines[idx]))
    /\ idx' = idx + 1
    /\ UNCHANGED <<text, lines, current_key, merged, warning, pc, call_vars, outside_sectioning>>

\* after the last line: the bodies are joined and stripped, empty ones are
\* dropped, the UNKNOWN warning is printed if due, then the summary, and
\* merged is returned unless a print raised
SplitMerge ==
    /\ pc = "loop"
    /\ idx > Len(lines)
    /\ merged' = merge_sections(sections, 1, <<>>)
    /\ warning' = unknown_warning(merged')
    /\ pc' = print_outcome(merged')
    /\ UNCHANGED <<text, lines, idx, current_key, sections, call_vars, outside_sectioning>>

NextSectioning == SplitStart \/ SplitHeading \/ SplitBody \/ SplitMerge

SpecSectioning == InitSectioning /\ [][NextSectioning]_vars

(***************************************************************************)
(* split_into_sections called again, as for a document analysed twice in   *)
(* one process: with the text of the first call or with another text       *)
(***************************************************************************)
MaxCalls == 3

L_sample == <<"S", "a", "m", "p", "l", "e", " ", "p", "o", "l", "i", "c", "y", ".">>

RepeatLines == { L_COVERAGE_A, L_We_cover, L_bracketed, L_sample }

RepeatTexts ==
    UNION { {join_lines(d) : d \in [1..n -> RepeatLines]} : n \in 0..MaxLines }
    \cup {None}

\* the document analysed between two analyses of the first one
T_other == join_lines(<<L_DECLARATIONS, L_Dwelling_text>>)

\* how a call can end
Finished ==
    {"done", "AttributeError", "MarkupError in preview", "MarkupError in summary"}

InitRepeat ==
    /\ text \in RepeatTexts
    /\ lines = <<>>
    /\ idx = 0
    /\ current_key = UNKNOWN_SECTION_NAME
    /\ sections = <<>>
    /\ merged = <<>>
    /\ warning = FALSE
    /\ pc = "start"
    /\ calls = 1
    /\ first_call = NoOutcome
    /\ ResolverIdle
    /\ HeadingIdle
    /\ RoleIdle
    /\ DisplayIdle
    /\ LaterIdle

\* the text and the outcome of the first call
text_of_first == IF calls = 1 THEN text ELSE first_call.text

outcome_of_first ==
    IF calls = 1
    THEN [text |-> text, pc |-> pc, merged |-> merged, warning |-> warning]
    ELSE first_call

\* the next call of split_into_sections begins; what the last call left
\* behind is still there
SplitAgain ==
    /\ pc \in Finished
    /\ calls < MaxCalls
    /\ first_call' = outcome_of_first
    /\ text' \in {text_of_first, T_other}
    /\ pc' = "start"
    /\ calls' = calls + 1
    /\ UNCHANGED <<lines, idx, current_key, sections, merged, warning, outside_sectioning>>

NextRepeat == SplitStart \/ SplitHeading \/ SplitBody \/ SplitMerge \/ SplitAgain

SpecRepeat == InitRepeat /\ [][NextRepeat]_vars

(***************************************************************************)
(* _looks_like_heading(line), for lines that open like a heading and       *)
(* lines that do not                                                       *)
(***************************************************************************)
MaxPad == 1

Pad(n) == [i \in 1..n |-> " "]

SectionWords ==
    { W_SECTION, <<"S", "e", "c", "t", "i", "o", "n">>, <<"s", "e", "c", "T", "I", "O", "N">> }

CoverageWords ==
    { W_COVERAGE, <<"C", "o", "v", "e", "r", "a", "g", "e">>, <<"c", "o", "v", "e", "r", "a", "g", "e">> }

Gaps == { <<" ">>, <<"\t">>, <<" ", " ">> }

Numerals == { <<"I">>, <<"i", "v">>, <<"X", "X", "I">> }

Letters == { <<"A">>, <<"b">>, <<"Z">> }

T_long == <<" ", "-", " ", "t", "h", "i", "s", " ", "p", "a", "r", "t", " ", "o", "f", " ", "t", "h", "e", " ", "p", "o", "l", "i", "c", "y", " ", "s", "e", "t", "s", " ", "o", "u", "t", ".", " ", "w", "h", "a", "t", " ", "w", "e", " ", "d", "o", " ", "n", "o", "t", " ", "c", "o", "v", "e", "r", ",", " ", "a", "n", "d", " ", "w", "h", "e", "n", " ", "w", "e", " ", "w", "i", "l", "l", " ", "d", "e", "n", "y", " ", "a", " ", "c", "l", "a", "i", "m", " ", "m", "a", "d", "e", ".">>

HeadingRests ==
    { <<>>,
      <<" ", "-", " ", "E", "x", "c", "l", "u", "s", "i", "o", "n", "s", ".">>,
      <<":", " ", "x">>,
      <<"p", "p", "l", "i", "e", "s", " ", "t", "o", " ", "t", "h", "e", " ", "d", "w", "e", "l", "l", "i", "n", "g", ".">>,
      T_long }

\* lines that open with SECTION <roman> or COVERAGE <letter>
PatternLines ==
    { Pad(a) \o w \o g \o n \o t \o Pad(b) :
        a \in 0..MaxPad, b \in 0..MaxPad, w \in SectionWords, g \in Gaps,
        n \in Numerals, t \in HeadingRests }
    \cup
    { Pad(a) \o w \o g \o n \o t \o Pad(b) :
        a \in 0..MaxPad, b \in 0..MaxPad, w \in CoverageWords, g \in Gaps,
        n \in Letters, t \in HeadingRests }

\* lines that do not
OtherLines ==
    LinePool \cup
    { W_SECTION, W_COVERAGE, Pad(MaxPad),
      <<"S", "E", "C", "T", "I", "O", "N", " ", "1">>,
      <<"C", "O", "V", "E", "R", "A", "G", "E", " ", "-", " ", "A">>,
      <<"S", "E", "C", "T", "I", "O", "N", "I", "V">> }

\* lines that open with neither: at the limits of length and word count,
\* with and without letters, lowercase letters, periods and other characters
L_TERM == <<"T", "E", "R", "M">>

L_TERMS == <<"T", "E", "R", "M", "S">>

L_90_characters == <<"L", "O", "S", "S", " ", "S", "E", "T", "T", "L", "E", "M", "E", "N", "T", "/", "A", "P", "P", "R", "A", "I", "S", "A", "L", ",", " ", "M", "O", "R", "T", "G", "A", "G", "E", " ", "C", "L", "A", "U", "S", "E", ",", " ", "S", "U", "I", "T", " ", "A", "G", "A", "I", "N", "S", "T", " ", "U", "S", "/", "O", "U", "R", " ", "O", "P", "T", "I", "O", "N", " ", "(", "A", "L", "L", "-", "P", "E", "R", "I", "L", "S", "-", "I", "N", "S", "U", "R", "E", ")">>

L_91_characters == <<"L", "O", "S", "S", " ", "S", "E", "T", "T", "L", "E", "M", "E", "N", "T", "/", "A", "P", "P", "R", "A", "I", "S", "A", "L", ",", " ", "M", "O", "R", "T", "G", "A", "G", "E", " ", "C", "L", "A", "U", "S", "E", ",", " ", "S", "U", "I", "T", " ", "A", "G", "A", "I", "N", "S", "T", " ", "U", "S", "/", "O", "U", "R", " ", "O", "P", "T", "I", "O", "N", " ", "(", "A", "L", "L", "-", "P", "E", "R", "I", "L", "S", "-", "I", "N", "S", "U", "R", "E", "D", ")">>

L_12_words == <<"A", "A", " ", "B", " ", "C", " ", "D", " ", "E", " ", "F", " ", "G", " ", "H", " ", "I", " ", "J", " ", "K", " ", "L">>

L_13_words == <<"A", "A", " ", "B", " ", "C", " ", "D", " ", "E", " ", "F", " ", "G", " ", "H", " ", "I", " ", "J", " ", "K", " ", "L", " ", "M">>

L_no_letter == <<"1", "2", "3", "4", "5", " ", "(", "6", "7", ")">>

L_lowercase == <<"D", "E", "F", "I", "N", "I", "T", "I", "O", "N", "S", " ", "u", "s", "e", "d">>

L_period == <<"S", "E", "E", " ", "P", "A", "G", "E", " ", "2", ".">>

L_exclamation == <<"N", "O", "T", "I", "C", "E", "!">>

L_digit_first == <<"2", " ", "L", "O", "S", "S", " ", "S", "E", "T", "T", "L", "E", "M", "E", "N", "T">>

L_tabs == <<"\t", "L", "O", "S", "S", "\t", "S", "E", "T", "T", "L", "E", "M", "E", "N", "T", "\t">>

CapsLines ==
    { Pad(a) \o l \o Pad(b) :
        a \in 0..MaxPad, b \in 0..MaxPad,
        l \in { L_TERM, L_TERMS, L_90_characters, L_91_characters, L_12_words,
                L_13_words, L_no_letter, L_lowercase, L_period, L_exclamation,
                L_digit_first, L_tabs } }

\* lines a document may hold as headings, in the spellings of several
\* carriers, and lines that only look like them
N_Section_I_ndash_Exclusions == <<" ", "S", "e", "c", "t", "i", "o", "n", " ", "I", " ", " ", "ndash", " ", " ", "E", "x", "c", "l", "u", "s", "i", "o", "n", "s", " ">>

N_definitions_used == <<"d", "e", "f", "i", "n", "i", "t", "i", "o", "n", "s", " ", "u", "s", "e", "d", "\t", "i", "n", " ", "t", "h", "i", "s", " ", "p", "o", "l", "i", "c", "y">>

N_Coverage_A_mdash_Dwelling == <<"C", "o", "v", "e", "r", "a", "g", "e", " ", "A", " ", "mdash", " ", "D", "w", "e", "l", "l", "i", "n", "g">>

N_SECTION_II_LIABILITY == <<"S", "E", "C", "T", "I", "O", "N", " ", "I", "I", " ", "-", " ", "L", "I", "A", "B", "I", "L", "I", "T", "Y", " ", "C", "O", "V", "E", "R", "A", "G", "E", "S">>

N_Section_I_Property_Coverages == <<"S", "e", "c", "t", "i", "o", "n", " ", "I", " ", "ndash", " ", "P", "r", "o", "p", "e", "r", "t", "y", " ", " ", "C", "o", "v", "e", "r", "a", "g", "e", "s">>

N_SECTION_IV_both == <<"S", "E", "C", "T", "I", "O", "N", " ", "I", "V", ":", " ", "G", "E", "N", "E", "R", "A", "L", " ", "C", "O", "N", "D", "I", "T", "I", "O", "N", "S", " ", "A", "N", "D", " ", "E", "X", "C", "L", "U", "S", "I", "O", "N", "S">>

N_SECTION_II_CONDITIONS == <<"S", "E", "C", "T", "I", "O", "N", " ", "I", "I", " ", "C", "O", "N", "D", "I", "T", "I", "O", "N", "S">>

N_Coverage_E == <<"C", "o", "v", "e", "r", "a", "g", "e", " ", "E", ":", " ", "P", "e", "r", "s", "o", "n", "a", "l", " ", "L", "i", "a", "b", "i", "l", "i", "t", "y">>

N_COVERAGE_F == <<"C", "O", "V", "E", "R", "A", "G", "E", " ", "F">>

N_coverage_f_dash == <<"c", "o", "v", "e", "r", "a", "g", "e", " ", "f", " ", "-">>

N_Coverage_applies == <<"C", "o", "v", "e", "r", "a", "g", "e", " ", "a", "p", "p", "l", "i", "e", "s">>

N_COVERAGE_A_two_dashes == <<"C", "O", "V", "E", "R", "A", "G", "E", " ", "A", " ", "-", " ", "-", " ", "X">>

N_Loss_settlement == <<"L", "o", "s", "s", " ", " ", "s", "e", "t", "t", "l", "e", "m", "e", "n", "t">>

N_SECTIONS_I_AND_II == <<"S", "E", "C", "T", "I", "O", "N", "S", " ", "I", " ", "A", "N", "D", " ", "I", "I">>

N_EXCLUSIONS_AND_CONDITIONS == <<"E", "X", "C", "L", "U", "S", "I", "O", "N", "S", " ", "A", "N", "D", " ", "C", "O", "N", "D", "I", "T", "I", "O", "N", "S">>

N_blank == <<" ", "\t", " ">>

NormalizerLines ==
    { N_Section_I_ndash_Exclusions, N_definitions_used, N_Coverage_A_mdash_Dwelling, N_SECTION_II_LIABILITY,
      N_Section_I_Property_Coverages,
      N_SECTION_IV_both, N_SECTION_II_CONDITIONS, N_Coverage_E,
      N_COVERAGE_F, N_coverage_f_dash, N_Coverage_applies, N_COVERAGE_A_two_dashes,
      N_Loss_settlement, N_SECTIONS_I_AND_II, N_EXCLUSIONS_AND_CONDITIONS, N_blank, <<>> }

\* lines of body text and of notices
L_Section_information == <<"S", "e", "c", "t", "i", "o", "n", " ", "i", "n", "f", "o", "r", "m", "a", "t", "i", "o", "n", " ", "f", "o", "l", "l", "o", "w", "s", ".">>

L_NOTICE_IMPORTANT == <<"N", "O", "T", "I", "C", "E", ":", " ", "I", "M", "P", "O", "R", "T", "A", "N", "T">>

L_NOTICE_IMPORTANT_exclamation == <<"N", "O", "T", "I", "C", "E", ":", " ", "I", "M", "P", "O", "R", "T", "A", "N", "T", "!">>

L_LOSS_star_PAYABLE == <<"L", "O", "S", "S", " ", "*", " ", "P", "A", "Y", "A", "B", "L", "E">>

L_stars_LOSS_PAYABLE == <<"*", "*", " ", "L", "O", "S", "S", " ", "P", "A", "Y", "A", "B", "L", "E">>

L_LOSS_PAYABLE_clause == <<"L", "O", "S", "S", " ", "P", "A", "Y", "A", "B", "L", "E", " ", "(", "M", "O", "R", "T", "G", "A", "G", "E", " ", "&", " ", "L", "I", "E", "N", "H", "O", "L", "D", "E", "R", "'", "S", ")", " ", "-", " ", "2", "/", "3">>

ProseLines ==
    { Pad(a) \o l \o Pad(b) :
        a \in 0..MaxPad, b \in 0..MaxPad,
        l \in { L_Section_information, L_NOTICE_IMPORTANT, L_NOTICE_IMPORTANT_exclamation,
                L_LOSS_star_PAYABLE, L_stars_LOSS_PAYABLE, L_LOSS_PAYABLE_clause } }

InitHeading ==
    /\ line \in PatternLines \cup OtherLines \cup CapsLines \cup NormalizerLines
                \cup ProseLines
    /\ classified = FALSE
    /\ is_heading = FALSE
    /\ heading = None
    /\ ResolverIdle
    /\ SectioningIdle
    /\ RoleIdle
    /\ DisplayIdle
    /\ LaterIdle

\* _looks_like_heading(line)
Classify ==
    /\ ~classified
    /\ is_heading' = looks_like_heading(line)
    /\ classified' = TRUE
    /\ UNCHANGED <<line, heading, outside_heading>>

\* _normalize_heading(line)
Normalize ==
    /\ heading = None
    /\ heading' = normalize_heading(line)
    /\ UNCHANGED <<line, classified, is_heading, outside_heading>>

NextHeading == Classify \/ Normalize

SpecHeading == InitHeading /\ [][NextHeading]_vars

(***************************************************************************)
(* classify_section_role(section_name, raw_text)                           *)
(***************************************************************************)
meta_text_markers ==
    <<
      <<"t", "h", "i", "s", " ", "i", "s", " ", "o", "n", "l", "y", " ", "a", " ", "s", "a", "m", "p", "l", "e">>,
      <<"s", "a", "m", "p", "l", "e", " ", "o", "f", " ", "a", " ", "b", "a", "s", "e", " ", "p", "o", "l", "i", "c", "y">>,
      <<"s", "a", "m", "p", "l", "e", " ", "p", "o", "l", "i", "c", "y">>,
      <<"n", "o", "t", " ", "a", "n", " ", "a", "c", "t", "u", "a", "l", " ", "p", "o", "l", "i", "c", "y">>,
      <<"n", "o", "t", " ", "p", "a", "r", "t", " ", "o", "f", " ", "y", "o", "u", "r", " ", "p", "o", "l", "i", "c", "y">>,
      <<"f", "o", "r", " ", "i", "l", "l", "u", "s", "t", "r", "a", "t", "i", "o", "n", " ", "o", "n", "l", "y">>,
      <<"f", "o", "r", " ", "i", "n", "f", "o", "r", "m", "a", "t", "i", "o", "n", "a", "l", " ", "p", "u", "r", "p", "o", "s", "e", "s", " ", "o", "n", "l", "y">> >>

meta_regulatory_markers ==
    <<
      <<"o", "f", "f", "i", "c", "e", " ", "o", "f", " ", "i", "n", "s", "u", "r", "a", "n", "c", "e", " ", "r", "e", "g", "u", "l", "a", "t", "i", "o", "n">>,
      <<"f", "l", "o", "r", "i", "d", "a", " ", "o", "f", "f", "i", "c", "e", " ", "o", "f", " ", "i", "n", "s", "u", "r", "a", "n", "c", "e", " ", "r", "e", "g", "u", "l", "a", "t", "i", "o", "n">>,
      <<"t", "e", "x", "a", "s", " ", "d", "e", "p", "a", "r", "t", "m", "e", "n", "t", " ", "o", "f", " ", "i", "n", "s", "u", "r", "a", "n", "c", "e">>,
      <<"s", "e", "r", "f", "f">> >>

meta_copyright_markers ==
    <<
      <<"c", "o", "p", "y", "r", "i", "g", "h", "t">>,
      <<"i", "s", "o", " ", "p", "r", "o", "p", "e", "r", "t", "i", "e", "s">>,
      <<"i", "n", "s", "u", "r", "a", "n", "c", "e", " ", "s", "e", "r", "v", "i", "c", "e", "s", " ", "o", "f", "f", "i", "c", "e">> >>

\* the names that are meta whatever the text
meta_names ==
    <<
      <<"s", "a", "m", "p", "l", "e", " ", "p", "o", "l", "i", "c", "y">>,
      <<"o", "f", "f", "i", "c", "e", " ", "o", "f", " ", "i", "n", "s", "u", "r", "a", "n", "c", "e", " ", "r", "e", "g", "u", "l", "a", "t", "i", "o", "n">> >>

form_like ==
    <<
      <<"h", "o", " ", "0", "0", " ", "0", "3">>,
      <<"t", "r", "u", "e", " ", "h", "o", " ", "0", "3">>,
      <<"s", "g", "p", " ", "h", "o", " ", "0", "3">>,
      <<"h", "o", "-">>,
      <<"h", "o", " ">> >>

\* (x or "")
or_empty(x) == IF x = None THEN <<>> ELSE x

\* any(m in t for m in markers)
any_in(markers, t) == \E i \in 1..Len(markers) : contains(t, markers[i])

\* any(t.startswith(prefix) for prefix in prefixes)
any_startswith(prefixes, t) == \E i \in 1..Len(prefixes) : startswith(t, prefixes[i])

\* the name is compared as it is, not lowercased
classify_section_role_name_as_is(section_name, txt) ==
    LET name_l == or_empty(section_name)
        text_l == lower(or_empty(txt))
    IN  IF /\ contains(name_l, <<"u", "n", "k", "n", "o", "w", "n">>)
           /\ \/ any_in(meta_text_markers, text_l)
              \/ any_in(meta_regulatory_markers, text_l)
              \/ any_in(meta_copyright_markers, text_l)
        THEN "meta"
        ELSE IF any_in(meta_names, name_l)
        THEN "meta"
        ELSE IF /\ any_startswith(form_like, name_l)
                /\ \/ any_in(meta_copyright_markers, text_l)
                   \/ any_in(meta_text_markers, text_l)
        THEN "meta"
        ELSE IF any_in(meta_text_markers \o meta_regulatory_markers, text_l)
        THEN "meta"
        ELSE "substantive"

classify_section_role(section_name, txt) ==
    LET name_l == lower(or_empty(section_name))
        text_l == lower(or_empty(txt))
    IN  IF /\ contains(name_l, <<"u", "n", "k", "n", "o", "w", "n">>)
           /\ \/ any_in(meta_text_markers, text_l)
              \/ any_in(meta_regulatory_markers, text_l)
              \/ any_in(meta_copyright_markers, text_l)
        THEN "meta"
        ELSE IF any_in(meta_names, name_l)
        THEN "meta"
        ELSE IF /\ any_startswith(form_like, name_l)
                /\ \/ any_in(meta_copyright_markers, text_l)
                   \/ any_in(meta_text_markers, text_l)
        THEN "meta"
        ELSE IF any_in(meta_text_markers \o meta_regulatory_markers, text_l)
        THEN "meta"
        ELSE "substantive"

\* section names and section texts
K_empty == <<>>

K_UNKNOWN == <<"U", "N", "K", "N", "O", "W", "N">>

K_Unknown_Section == <<"U", "n", "k", "n", "o", "w", "n", " ", "S", "e", "c", "t", "i", "o", "n">>

K_SAMPLE_POLICY == <<"S", "A", "M", "P", "L", "E", " ", "P", "O", "L", "I", "C", "Y">>

K_Office_notice == <<"O", "f", "f", "i", "c", "e", " ", "o", "f", " ", "I", "n", "s", "u", "r", "a", "n", "c", "e", " ", "R", "e", "g", "u", "l", "a", "t", "i", "o", "n", " ", "N", "o", "t", "i", "c", "e">>

K_HO_00_03 == <<"H", "O", " ", "0", "0", " ", "0", "3", " ", "1", "0", " ", "0", "0">>

K_TRUE_HO_03 == <<"T", "R", "U", "E", " ", "H", "O", " ", "0", "3">>

K_SGP_HO_03 == <<"S", "G", "P", " ", "H", "O", " ", "0", "3">>

K_HO_208TX == <<"H", "O", "-", "2", "0", "8", "T", "X">>

K_HO_space == <<"H", "O", " ">>

K_THE_HO_00_03 == <<"T", "H", "E", " ", "H", "O", " ", "0", "0", " ", "0", "3", " ", "F", "O", "R", "M">>

K_HOMEOWNERS == <<"H", "O", "M", "E", "O", "W", "N", "E", "R", "S">>

X_empty == <<>>

X_We_cover == <<"W", "e", " ", "c", "o", "v", "e", "r", " ", "t", "h", "e", " ", "d", "w", "e", "l", "l", "i", "n", "g", ".">>

X_ONLY_A_SAMPLE == <<"T", "H", "I", "S", " ", "I", "S", " ", "O", "N", "L", "Y", " ", "A", " ", "S", "A", "M", "P", "L", "E", ".">>

X_sample_of_base == <<"A", " ", "s", "a", "m", "p", "l", "e", " ", "o", "f", " ", "a", " ", "b", "a", "s", "e", " ", "p", "o", "l", "i", "c", "y">>

X_Sample_Policy == <<"S", "a", "m", "p", "l", "e", " ", "P", "o", "l", "i", "c", "y">>

X_not_actual == <<"N", "o", "t", " ", "a", "n", " ", "a", "c", "t", "u", "a", "l", " ", "p", "o", "l", "i", "c", "y">>

X_not_part == <<"n", "o", "t", " ", "p", "a", "r", "t", " ", "o", "f", " ", "y", "o", "u", "r", " ", "p", "o", "l", "i", "c", "y">>

X_Illustration == <<"F", "o", "r", " ", "I", "l", "l", "u", "s", "t", "r", "a", "t", "i", "o", "n", " ", "O", "n", "l", "y">>

X_informational == <<"f", "o", "r", " ", "i", "n", "f", "o", "r", "m", "a", "t", "i", "o", "n", "a", "l", " ", "p", "u", "r", "p", "o", "s", "e", "s", " ", "o", "n", "l", "y">>

X_Office == <<"O", "f", "f", "i", "c", "e", " ", "o", "f", " ", "I", "n", "s", "u", "r", "a", "n", "c", "e", " ", "R", "e", "g", "u", "l", "a", "t", "i", "o", "n">>

X_Florida == <<"F", "l", "o", "r", "i", "d", "a", " ", "O", "f", "f", "i", "c", "e", " ", "o", "f", " ", "I", "n", "s", "u", "r", "a", "n", "c", "e", " ", "R", "e", "g", "u", "l", "a", "t", "i", "o", "n">>

X_Texas == <<"T", "e", "x", "a", "s", " ", "D", "e", "p", "a", "r", "t", "m", "e", "n", "t", " ", "o", "f", " ", "I", "n", "s", "u", "r", "a", "n", "c", "e">>

X_SERFF == <<"S", "E", "R", "F", "F", " ", "f", "i", "l", "i", "n", "g">>

X_Copyright == <<"C", "o", "p", "y", "r", "i", "g", "h", "t", " ", "2", "0", "1", "0">>

X_ISO == <<"I", "S", "O", " ", "P", "r", "o", "p", "e", "r", "t", "i", "e", "s", ",", " ", "I", "n", "c", ".">>

X_Services_Office == <<"I", "n", "s", "u", "r", "a", "n", "c", "e", " ", "S", "e", "r", "v", "i", "c", "e", "s", " ", "O", "f", "f", "i", "c", "e">>

X_copy_right == <<"c", "o", "p", "y", " ", "r", "i", "g", "h", "t">>

X_sample_two_spaces == <<"s", "a", "m", "p", "l", "e", " ", " ", "p", "o", "l", "i", "c", "y">>

RoleKeys ==
    { None, K_empty, K_UNKNOWN, K_Unknown_Section, K_SAMPLE_POLICY, K_Office_notice, K_HO_00_03, K_TRUE_HO_03, K_SGP_HO_03, K_HO_208TX, K_HO_space, K_THE_HO_00_03, K_HOMEOWNERS, K_EXCLUSIONS, K_COVERAGE_A_DWELLING }

RoleTexts ==
    { None, X_empty, X_We_cover, X_ONLY_A_SAMPLE, X_sample_of_base, X_Sample_Policy, X_not_actual, X_not_part, X_Illustration, X_informational, X_Office, X_Florida, X_Texas, X_SERFF, X_Copyright, X_ISO, X_Services_Office, X_copy_right, X_sample_two_spaces }

InitRole ==
    /\ section_key \in RoleKeys
    /\ raw_text \in RoleTexts
    /\ role = "none"
    /\ ResolverIdle
    /\ SectioningIdle
    /\ HeadingIdle
    /\ DisplayIdle
    /\ LaterIdle

\* role = classify_section_role(section_name, raw_text)
ClassifyRole ==
    /\ role = "none"
    /\ role' = classify_section_role(section_key, raw_text)
    /\ UNCHANGED <<section_key, raw_text, outside_role>>

NextRole == ClassifyRole

SpecRole == InitRole /\ [][NextRole]_vars

(***************************************************************************)
(* get_citation_display_data(point, section_map) and                       *)
(* get_angle_citation_display_data(angle, section_map)                     *)
(***************************************************************************)
MaxCitations == 2

\* a key that the dict does not have
Absent == <<"absent">>

\* d.get(key), d.get(key, default)
get(field) == IF field = Absent THEN None ELSE field

get_or(field, default) == IF field = Absent THEN default ELSE field

\* str(x), for a string or None
str(x) == IF x = None THEN <<"N", "o", "n", "e">> ELSE x

\* bool(x), for a string, a list or None
truthy(x) == x # None /\ x # <<>>

\* str(point.get("text", "")).strip()
point_text_of(p) == strip(str(get_or(p.text, <<>>)))

\* the citation is not trimmed
citation_text_untrimmed(p) ==
    IF truthy(get(p.citation)) THEN str(get(p.citation)) ELSE None

\* str(citation).strip() if citation else None
citation_text_of(p) ==
    IF truthy(get(p.citation)) THEN strip(str(get(p.citation))) ELSE None

\* the one element of a set of one element
the(S) == CHOOSE x \in S : TRUE

\* a citation that resolves to nothing is shown as linked
display_data_links_any(p, match) ==
    LET unlinked == [raised |-> FALSE, point_text |-> point_text_of(p),
                     citation_text |-> citation_text_of(p),
                     has_linkable_citation |-> FALSE,
                     section_name |-> None, section_text |-> None]
    IN  IF ~truthy(citation_text_of(p)) THEN unlinked
        ELSE IF match.status = "KeyError" THEN [unlinked EXCEPT !.raised = TRUE]
        ELSE [unlinked EXCEPT !.has_linkable_citation = TRUE,
                              !.section_name = match.section_name,
                              !.section_text = match.section_text]

\* result, as returned when find_section_for_citation has answered match (a
\* KeyError raised by it goes up to the caller)
display_data(p, match) ==
    LET unlinked == [raised |-> FALSE, point_text |-> point_text_of(p),
                     citation_text |-> citation_text_of(p),
                     has_linkable_citation |-> FALSE,
                     section_name |-> None, section_text |-> None]
    IN  IF ~truthy(citation_text_of(p)) THEN unlinked
        ELSE IF match.status = "KeyError" THEN [unlinked EXCEPT !.raised = TRUE]
        ELSE IF match.status = "match"
        THEN [unlinked EXCEPT !.has_linkable_citation = TRUE,
                              !.section_name = match.section_name,
                              !.section_text = match.section_text]
        ELSE unlinked

\* match = find_section_for_citation(citation_text, section_map), called once
get_citation_display_data(p, smap) ==
    the({ display_data(p, match) :
            match \in {find_section_for_citation(citation_text_of(p), smap)} })

\* citation_str = str(citation).strip() if citation else ""
citation_str_of(c) == IF truthy(c) THEN strip(str(c)) ELSE <<>>

\* a citation is listed once however often the angle names it
append_citation_once_each(acc, citation_str, match) ==
    LET seen == \/ \E n \in 1..Len(acc.linked_citations) :
                      acc.linked_citations[n].citation_text = citation_str
                \/ \E n \in 1..Len(acc.unlinked_citations) :
                      acc.unlinked_citations[n] = citation_str
    IN  IF citation_str = <<>> \/ seen THEN acc
        ELSE IF match.status = "KeyError" THEN [acc EXCEPT !.raised = TRUE]
        ELSE IF match.status = "match"
        THEN [acc EXCEPT !.linked_citations =
                  Append(@, [citation_text |-> citation_str,
                             section_name |-> match.section_name,
                             section_text |-> match.section_text])]
        ELSE [acc EXCEPT !.unlinked_citations = Append(@, citation_str)]

\* the body of the loop, when find_section_for_citation has answered match
append_citation(acc, citation_str, match) ==
    IF citation_str = <<>> THEN acc
    ELSE IF match.status = "KeyError" THEN [acc EXCEPT !.raised = TRUE]
    ELSE IF match.status = "match"
    THEN [acc EXCEPT !.linked_citations =
              Append(@, [citation_text |-> citation_str,
                         section_name |-> match.section_name,
                         section_text |-> match.section_text])]
    ELSE [acc EXCEPT !.unlinked_citations = Append(@, citation_str)]

\* for citation in citations: ..., each citation resolved once
RECURSIVE citation_loop(_, _, _, _)
citation_loop(cits, i, smap, acc) ==
    IF i > Len(cits) \/ acc.raised THEN acc
    ELSE the({ citation_loop(cits, i + 1, smap, next_acc) :
                 next_acc \in
                   { append_citation(acc, citation_str_of(cits[i]), match) :
                       match \in {find_section_for_citation(citation_str_of(cits[i]), smap)} } })

\* angle.get("citations") or [], where the angle has a list under
\* "citations", or None, or no such key
citations_of(a) == IF a.citations.given = "list" THEN a.citations.list ELSE <<>>

get_angle_citation_display_data(a, smap) ==
    citation_loop(citations_of(a), 1, smap,
                  [raised |-> FALSE, angle_text |-> strip(str(get_or(a.text, <<>>))),
                   linked_citations |-> <<>>, unlinked_citations |-> <<>>])

\* texts and citations of points and angles
P_Coverage_text == <<" ", "C", "o", "v", "e", "r", "a", "g", "e", " ", "A", " ", "c", "o", "v", "e", "r", "s", " ", "t", "h", "e", " ", "d", "w", "e", "l", "l", "i", "n", "g", "\n">>

P_observation == <<"G", "e", "n", "e", "r", "a", "l", " ", "o", "b", "s", "e", "r", "v", "a", "t", "i", "o", "n">>

C_Coverage_A_padded == <<" ", " ", "C", "o", "v", "e", "r", "a", "g", "e", " ", "A", " ", "\t">>

PointTexts == { Absent, None, P_Coverage_text, P_observation }

PointCitations ==
    { Absent, None, <<>>, C_blank, C_Coverage_A, C_Coverage_A_padded, C_exclusions,
      C_COVERAGE_Z, C_Section_I_Exclusions }

Points == [text : PointTexts, citation : PointCitations]

AngleCitations ==
    { None, <<>>, C_blank, C_Coverage_A_padded, C_exclusions, C_COVERAGE_Z }

CitationLists == UNION { [1..n -> AngleCitations] : n \in 0..MaxCitations }

CitationFields ==
    [given : {"list"}, list : CitationLists]
    \cup {[given |-> "absent", list |-> <<>>], [given |-> "None", list |-> <<>>]}

Angles == [text : {Absent, P_Coverage_text}, citations : CitationFields]

\* the section maps of the session: those of SectionMaps over three names
DisplayKeys == { K_COVERAGE_A_DWELLING, K_COVERAGE_A, K_EXCLUSIONS }

DisplayMaps ==
    {m \in SectionMaps : \A i \in 1..Len(m) : m[i][1] \in DisplayKeys}

InitDisplay ==
    /\ section_map \in DisplayMaps
    /\ citation = None
    /\ result = ReturnNone
    /\ op = "init"
    /\ edits = 0
    /\ first = NoCall
    /\ between = FALSE
    /\ SectioningIdle
    /\ HeadingIdle
    /\ RoleIdle
    /\ DisplayIdle
    /\ LaterIdle

\* display = get_citation_display_data(p, section_map), for one point of a
\* report
Display(p) ==
    /\ DisplayIdle
    /\ point' = p
    /\ display' = get_citation_display_data(p, section_map)
    /\ angle' = NoAngle
    /\ angle_display' = NoAngleDisplay
    /\ UNCHANGED <<resolver_vars, outside_display>>

\* angle_display = get_angle_citation_display_data(a, section_map), for one
\* angle of a report
DisplayAngle(a) ==
    /\ DisplayIdle
    /\ angle' = a
    /\ angle_display' = get_angle_citation_display_data(a, section_map)
    /\ point' = NoPoint
    /\ display' = NoDisplay
    /\ UNCHANGED <<resolver_vars, outside_display>>

NextDisplay ==
    \/ \E p \in Points : Display(p)
    \/ \E a \in Angles : DisplayAngle(a)

SpecDisplay == InitDisplay /\ [][NextDisplay]_vars

(***************************************************************************)
(* Properties of the resolver                                              *)
(***************************************************************************)
Called == op # "init"

\* what the caller sees of a result
Visible(r) == <<r.status, r.section_name, r.section_text>>

NormCitation == normalize_key(citation)

NormName(i) == normalize_key(section_map[i][1])

\* the call gets past the guards: a citation that is not blank, a map that is not empty
Usable == citation # None /\ NormCitation # <<>> /\ Len(section_map) > 0

ExactKeys == {i \in 1..Len(section_map) : NormName(i) = NormCitation}

PrefixKeys == {i \in 1..Len(section_map) : startswith(NormName(i), NormCitation)}

SubstringKeys == {i \in 1..Len(section_map) : contains(NormName(i), NormCitation)}

IndexOfName(name) == CHOOSE i \in 1..Len(section_map) : section_map[i][1] = name

\* s is SECTION, whitespace, a numeral over I, V, X, and then optional
\* whitespace, an optional dash and optional whitespace, up to position g - 1
IsSectionGap(s, g) ==
    LET p1 == Len(W_SECTION) + 1
    IN  /\ startswith(s, W_SECTION)
        /\ \E a \in 1..(g - p1) :
              /\ \A i \in p1..(p1 + a - 1) : s[i] \in Whitespace
              /\ \E b \in 1..(g - p1 - a) :
                    /\ \A i \in (p1 + a)..(p1 + a + b - 1) : s[i] \in RomanChars
                    /\ \E c \in 0..(g - p1 - a - b) :
                          /\ \A i \in (p1 + a + b)..(p1 + a + b + c - 1) :
                                s[i] \in Whitespace
                          /\ \E d \in 0..1 :
                                LET p5 == p1 + a + b + c + d
                                IN  /\ p5 <= g
                                    /\ \A i \in (p5 - d)..(p5 - 1) : s[i] = "-"
                                    /\ \A i \in p5..(g - 1) : s[i] \in Whitespace

\* every <rest> that some reading of s as SECTION <roman>[ - ]<rest> gives
Rests(s) ==
    {strip(SubSeq(s, g, Len(s))) : g \in {h \in 1..Len(s) : IsSectionGap(s, h)}} \ { <<>> }

\* C1: the hit of the earliest rung that has a hit is returned: a name whose
\* normalized form equals the normalized citation wins over names that start
\* with or contain the citation, wherever they stand in the map; a name that
\* starts with the citation wins over names that only contain it; structural
\* extraction is used only when exact, prefix and substring matching all miss.
C1_EarliestRungWins ==
    (Called /\ Usable) =>
        /\ ExactKeys # {} =>
              /\ result.status = "match" /\ result.rung = "exact"
              /\ normalize_key(result.section_name) = NormCitation
        /\ (ExactKeys = {} /\ PrefixKeys # {}) =>
              /\ result.status = "match" /\ result.rung = "prefix"
              /\ startswith(normalize_key(result.section_name), NormCitation)
        /\ (ExactKeys = {} /\ PrefixKeys = {} /\ SubstringKeys # {}) =>
              /\ result.status = "match" /\ result.rung = "substring"
              /\ contains(normalize_key(result.section_name), NormCitation)
        /\ result.rung = "structural" =>
              ExactKeys = {} /\ PrefixKeys = {} /\ SubstringKeys = {}

\* an exact hit was returned although a name earlier in the map starts with
\* the citation
C1_Witness ==
    /\ Called /\ Usable
    /\ result.rung = "exact"
    /\ \E i \in PrefixKeys \ ExactKeys : i < IndexOfName(result.section_name)

\* C2: when several names satisfy the winning prefix or substring rung, the
\* section returned is the first of them in the iteration order of section_map,
\* also when names differ only in case, dash type or whitespace.
C2_FirstInIterationOrder ==
    (Called /\ Usable) =>
        /\ result.rung = "prefix" =>
              result.section_name = section_map[MinOf(PrefixKeys)][1]
        /\ result.rung = "substring" =>
              result.section_name = section_map[MinOf(SubstringKeys)][1]

\* the <rest> the structural rung works with
RestOfCitation == upper(strip(section_pattern(NormCitation).rest))

RestPrefixKeys == {i \in 1..Len(section_map) : startswith(NormName(i), RestOfCitation)}

RestSubstringKeys == {i \in 1..Len(section_map) : contains(NormName(i), RestOfCitation)}

\* C3: when exact, prefix and substring matching miss and the citation reads
\* SECTION <roman>[ - ]<rest>, prefix matching of <rest> is retried and then
\* substring matching: a name that starts with <rest> is preferred to one that
\* only contains it, and no hit gives absent.  (Sections are compared by
\* normalized name, so that names differing only in spelling, C2, count as
\* the same section.)
C3_StructuralPrefixFirst ==
    (/\ Called /\ Usable
     /\ ExactKeys = {} /\ PrefixKeys = {} /\ SubstringKeys = {}
     /\ section_pattern(NormCitation).matched /\ RestOfCitation # <<>>) =>
        IF RestPrefixKeys # {}
        THEN /\ result.status = "match"
             /\ normalize_key(result.section_name) = NormName(MinOf(RestPrefixKeys))
        ELSE IF RestSubstringKeys # {}
        THEN /\ result.status = "match"
             /\ normalize_key(result.section_name) = NormName(MinOf(RestSubstringKeys))
        ELSE result.status = "None"

\* C4: citations that differ only in letter case, dash variant, whitespace at
\* the ends or the length of whitespace runs resolve alike: every variant of
\* the first citation gets the result of the first citation.
C4_VariantsResolveAlike ==
    op = "variant" => Visible(result) = Visible(first.result)

\* a variant spelled with an em dash and in another case resolved to a section
C4_Witness ==
    /\ op = "variant" /\ edits = 2
    /\ result.status = "match"
    /\ \E i \in 1..Len(citation) : citation[i] = "mdash"
    /\ upper(citation) # upper(first.citation)

\* no rung can hit: no name equals, starts with or contains the citation, and
\* no name contains a <rest> of the citation
NoRungHits ==
    /\ ExactKeys = {} /\ PrefixKeys = {} /\ SubstringKeys = {}
    /\ \A r \in Rests(NormCitation) :
          \A i \in 1..Len(section_map) : ~contains(NormName(i), r)

\* C5: a call never raises; it returns None for a null, empty or blank
\* citation, for an empty map, and when no rung hits.
C5_NoneNotException ==
    Called =>
        /\ result.status \in {"None", "match"}
        /\ (\/ citation = None
            \/ \A i \in 1..Len(citation) : citation[i] \in Whitespace
            \/ Len(section_map) = 0
            \/ NoRungHits) => Visible(result) = Visible(ReturnNone)

\* a citation that is not blank missed every rung of a map that is not empty
C5_Witness ==
    /\ Called /\ Usable /\ NoRungHits
    /\ result.status = "None"

\* C6: a section that is returned is one of section_map, under its original
\* name and with its own text, and its normalized name equals or contains the
\* normalized citation or contains a <rest> of a SECTION <roman> <rest> citation.
C6_ReturnedSectionIsRelated ==
    (Called /\ result.status = "match") =>
        /\ dict_has(section_map, result.section_name)
        /\ result.section_text = dict_get(section_map, result.section_name)
        /\ \/ normalize_key(result.section_name) = NormCitation
           \/ contains(normalize_key(result.section_name), NormCitation)
           \/ \E r \in Rests(NormCitation) :
                 contains(normalize_key(result.section_name), r)

\* a section was returned by structural extraction, under a name that is
\* not in normalized form
C6_Witness ==
    /\ Called /\ result.status = "match" /\ result.rung = "structural"
    /\ normalize_key(result.section_name) # result.section_name

\* C7: a call leaves section_map as it was, and a call with the citation of
\* the first call returns what the first call returned, whatever calls were
\* made in between.
C7_ReadOnlyAndRepeatable ==
    [][/\ section_map' = section_map
       /\ (Called /\ citation' = first.citation) =>
              Visible(result') = Visible(first.result)]_vars

\* the citation of the first call was resolved again, to a section, after a
\* call with another citation
C7_Witness ==
    /\ op = "resolve" /\ between
    /\ citation = first.citation
    /\ result.status = "match"

(***************************************************************************)
(* Properties of the sectioning engine                                     *)
(***************************************************************************)
\* the lines scanned so far
Scanned == IF pc \in {"loop", "done"} THEN 1..(idx - 1) ELSE {}

IsHeadingLine(i) == looks_like_heading(lines[i])

\* the canonical key of the nearest heading line before line i, or UNKNOWN
KeyAt(i) ==
    LET before == {j \in 1..(i - 1) : IsHeadingLine(j)}
    IN  IF before = {} THEN UNKNOWN_SECTION_NAME
        ELSE normalize_heading(lines[MaxOf(before)])

\* the scanned lines that are no headings and stand under key k, in document order
BodyLinesOf(k) ==
    PickFrom(lines, {i \in Scanned : ~IsHeadingLine(i) /\ KeyAt(i) = k}, 1)

RECURSIVE Concat(_)
Concat(ss) == IF Len(ss) = 0 THEN <<>> ELSE ss[1] \o Concat(Tail(ss))

\* C8: every line that is not a heading is accumulated under the canonical
\* key of the nearest heading line before it, or under UNKNOWN if there is
\* none; heading lines are in no body; a document without a heading line
\* yields no key but UNKNOWN.
C8_BodyUnderPrecedingHeading ==
    (pc \in {"loop", "done"}) =>
        /\ \A n \in 1..Len(sections) : sections[n][2] = BodyLinesOf(sections[n][1])
        /\ \A i \in Scanned : ~IsHeadingLine(i) => dict_has(sections, KeyAt(i))
        /\ pc = "done" =>
              /\ \A n \in 1..Len(merged) :
                    LET body == splitlines(merged[n][2])
                    IN  \A j \in 1..Len(body) : ~looks_like_heading(body[j])
              /\ (\A i \in 1..Len(lines) : ~IsHeadingLine(i)) =>
                    \A n \in 1..Len(merged) : merged[n][1] = UNKNOWN_SECTION_NAME

\* a document of text, a heading and text again was split into UNKNOWN and
\* the section of the heading
C8_Witness ==
    /\ pc = "done" /\ Len(lines) = 3
    /\ ~IsHeadingLine(1) /\ IsHeadingLine(2) /\ ~IsHeadingLine(3)
    /\ normalize_heading(lines[2]) # UNKNOWN_SECTION_NAME
    /\ dict_has(merged, UNKNOWN_SECTION_NAME)
    /\ dict_has(merged, normalize_heading(lines[2]))

\* the characters of the lines that are no headings, in document order
BodyCharsOfDocument ==
    Concat(PickFrom(lines, {i \in 1..Len(lines) : ~IsHeadingLine(i)}, 1))

\* the characters of the returned bodies, in map order, line ends left out
BodyCharsOfMerged ==
    Concat([n \in 1..Len(merged) |->
              PickFrom(merged[n][2],
                       {i \in 1..Len(merged[n][2]) : merged[n][2][i] \notin {"\n", "\r"}}, 1)])

\* the characters of s that are not whitespace
Solid(s) == PickFrom(s, {i \in 1..Len(s) : s[i] \notin Whitespace}, 1)

\* C9 as stated: the bodies of the returned map, one after the other, are the
\* lines that are no headings, one after the other: no character is lost or
\* duplicated.
C9_NoCharacterLost ==
    pc = "done" => BodyCharsOfMerged = BodyCharsOfDocument

\* C9, amended: each returned body is the lines of its section that are no
\* headings, in document order, joined by line feeds and stripped of leading
\* and trailing whitespace; a section whose body is empty then is left out; no
\* character that is not whitespace is lost or duplicated.
C9_NoSolidCharacterLost ==
    pc = "done" =>
        /\ \A n \in 1..Len(sections) :
              LET k    == sections[n][1]
                  body == strip(join_lines(BodyLinesOf(k)))
              IN  IF body = <<>> THEN ~dict_has(merged, k)
                  ELSE dict_has(merged, k) /\ dict_get(merged, k) = body
        /\ \A n \in 1..Len(merged) :
              /\ dict_has(sections, merged[n][1])
              /\ \A o \in 1..Len(merged) : merged[o][1] = merged[n][1] => o = n
        /\ Len(Solid(BodyCharsOfMerged)) = Len(Solid(BodyCharsOfDocument))

\* a document was split whose returned bodies hold fewer characters than its
\* lines that are no headings
C9_Witness ==
    /\ pc = "done" /\ Len(merged) >= 2
    /\ Len(BodyCharsOfMerged) < Len(BodyCharsOfDocument)

(***************************************************************************)
(* Properties of the heading classifier                                    *)
(***************************************************************************)
\* t opens with word (in any case), whitespace and a character of cls (in
\* any case)
OpensWith(t, word, cls) ==
    /\ startswith(upper(t), word)
    /\ \E a \in 1..(Len(t) - Len(word) - 1) :
          /\ \A i \in (Len(word) + 1)..(Len(word) + a) : t[i] \in Whitespace
          /\ upper_char(t[Len(word) + a + 1]) \in cls

\* C10: a line that, trimmed and in any case, opens with SECTION, whitespace
\* and a numeral over I, V, X, or with COVERAGE, whitespace and a letter, is a
\* heading, whatever follows and whatever its length, lowercase letters,
\* periods and word count.
C10_PatternLinesAreHeadings ==
    (/\ classified
     /\ \/ OpensWith(strip(line), W_SECTION, RomanChars)
        \/ OpensWith(strip(line), W_COVERAGE, UpperLetters)) => is_heading

\* a line of more than 90 characters and 12 words, with lowercase letters and
\* periods, was classified as a heading for its opening
C10_Witness ==
    /\ classified /\ is_heading
    /\ OpensWith(strip(line), W_SECTION, RomanChars)
    /\ Len(strip(line)) > 90
    /\ word_count(strip(line)) > 12
    /\ \E i \in 1..Len(line) : line[i] \in LowerLetters
    /\ \E i \in 1..Len(line) : line[i] = "."

\* neither structural prefix opens t
NoStructuralPrefix(t) ==
    /\ ~OpensWith(t, W_SECTION, RomanChars)
    /\ ~OpensWith(t, W_COVERAGE, UpperLetters)

\* the number of whitespace-separated words of t
Words(t) ==
    Cardinality({i \in 1..Len(t) :
                    t[i] \notin Whitespace /\ (i = Len(t) \/ t[i + 1] \in Whitespace)})

\* C11: a line that opens with neither structural prefix is a heading only if,
\* trimmed, it has 5 to 90 characters, no lowercase letter, no period, an
\* uppercase letter and at most 12 words; an empty or whitespace-only line is
\* no heading.
C11_OtherHeadingsAreShortCaps ==
    classified =>
        /\ (\A i \in 1..Len(line) : line[i] \in Whitespace) => ~is_heading
        /\ (is_heading /\ NoStructuralPrefix(strip(line))) =>
              /\ Len(strip(line)) >= 5
              /\ Len(strip(line)) <= 90
              /\ \A i \in 1..Len(line) : line[i] \notin LowerLetters
              /\ \A i \in 1..Len(line) : line[i] # "."
              /\ \E i \in 1..Len(line) : line[i] \in UpperLetters
              /\ Words(strip(line)) <= 12

\* a line of exactly 90 characters that opens with neither prefix was
\* classified as a heading
C11_Witness ==
    /\ classified /\ is_heading
    /\ NoStructuralPrefix(strip(line))
    /\ Len(strip(line)) = 90

\* the canonical candidate of the line: whitespace collapsed, trimmed, en and
\* em dash turned into hyphen, uppercased
Candidate == upper(replace_dashes(strip(sub_ws(line))))

\* what follows, in t, the word, whitespace, the numeral (or the one letter),
\* optional whitespace, one optional separator and optional whitespace
RestAfter(t, word, cls, one) ==
    LET p == Len(word) + 1 + RunLen(t, Len(word) + 1, Whitespace)
        q == p + (IF one THEN 1 ELSE RunLen(t, p, cls))
        a == q + RunLen(t, q, Whitespace)
        d == IF a <= Len(t) /\ t[a] \in {"-", ":"} THEN a + 1 ELSE a
    IN  SubSeq(t, d + RunLen(t, d, Whitespace), Len(t))

\* the letter of a COVERAGE <letter> candidate
LetterOf(t) == <<t[Len(W_COVERAGE) + 1 + RunLen(t, Len(W_COVERAGE) + 1, Whitespace)]>>

AliasRows(t) == {i \in 1..Len(HO3_HEADING_ALIASES) : HO3_HEADING_ALIASES[i][1] = t}

\* C12: _normalize_heading follows the ordered steps on the canonical
\* candidate: empty gives UNKNOWN; an alias key gives its target; else a
\* SECTION <roman> candidate gives EXCLUSIONS, CONDITIONS or SECTION I -
\* PROPERTY COVERAGES for the first of these its rest contains, and itself
\* otherwise; else a COVERAGE <letter> candidate gives COVERAGE <letter> -
\* <rest>, or COVERAGE <letter> when the rest is empty; else the candidate.
C12_NormalizerSteps ==
    heading # None =>
        IF Candidate = <<>> THEN heading = UNKNOWN_SECTION_NAME
        ELSE IF AliasRows(Candidate) # {}
        THEN \A i \in AliasRows(Candidate) : heading = HO3_HEADING_ALIASES[i][2]
        ELSE IF OpensWith(Candidate, W_SECTION, RomanChars)
        THEN LET rest == RestAfter(Candidate, W_SECTION, RomanChars, FALSE)
             IN  IF contains(rest, W_EXCLUSIONS) THEN heading = W_EXCLUSIONS
                 ELSE IF contains(rest, W_CONDITIONS) THEN heading = W_CONDITIONS
                 ELSE IF contains(rest, W_PROPERTY_COVERAGES)
                 THEN heading = W_SECTION_I_PROPERTY_COVERAGES
                 ELSE heading = Candidate
        ELSE IF OpensWith(Candidate, W_COVERAGE, UpperLetters)
        THEN LET rest == RestAfter(Candidate, W_COVERAGE, UpperLetters, TRUE)
             IN  IF rest # <<>>
                 THEN heading = W_COVERAGE \o <<" ">> \o LetterOf(Candidate)
                                   \o <<" ", "-", " ">> \o rest
                 ELSE heading = W_COVERAGE \o <<" ">> \o LetterOf(Candidate)
        ELSE heading = Candidate

\* a SECTION line that is no alias key and names both CONDITIONS and
\* EXCLUSIONS was normalized to EXCLUSIONS
C12_Witness ==
    /\ heading = W_EXCLUSIONS
    /\ AliasRows(Candidate) = {}
    /\ contains(Candidate, W_CONDITIONS)
    /\ OpensWith(Candidate, W_SECTION, RomanChars)

\* C13: split_into_sections has no reject path: no call raises, and for a
\* null or an empty text the returned map has no entry.
C13_NoRejectPath ==
    /\ pc \notin {"AttributeError", "MarkupError in preview", "MarkupError in summary"}
    /\ (pc = "done" /\ (text = None \/ text = <<>>)) => merged = <<>>

\* C14: in a returned map every key is a non-empty string, no key occurs
\* twice, every body is non-empty and neither begins nor ends with whitespace,
\* and a key whose accumulated text trims to empty is absent.
C14_ReturnedMapWellFormed ==
    pc = "done" =>
        /\ \A n \in 1..Len(merged) :
              /\ Len(merged[n][1]) > 0
              /\ Len(merged[n][2]) > 0
              /\ merged[n][2][1] \notin Whitespace
              /\ merged[n][2][Len(merged[n][2])] \notin Whitespace
              /\ \A o \in 1..Len(merged) : merged[o][1] = merged[n][1] => o = n
        /\ \A n \in 1..Len(sections) :
              (\A j \in 1..Len(sections[n][2]) :
                  \A i \in 1..Len(sections[n][2][j]) :
                      sections[n][2][j][i] \in Whitespace)
              => \A o \in 1..Len(merged) : merged[o][1] # sections[n][1]

\* a map was returned without a key whose buffer held nothing but blank lines
C14_Witness ==
    /\ pc = "done" /\ Len(merged) >= 1
    /\ \E n \in 1..Len(sections) :
          /\ Len(sections[n][2]) > 0
          /\ \A o \in 1..Len(merged) : merged[o][1] # sections[n][1]

\* the characters of the returned bodies, counted
BodyChars == Len(Concat([n \in 1..Len(merged) |-> merged[n][2]]))

UnknownChars ==
    Len(Concat([n \in 1..Len(merged) |->
                  IF merged[n][1] = UNKNOWN_SECTION_NAME THEN merged[n][2] ELSE <<>>]))

\* C15: the warning is emitted exactly when the returned bodies hold at least
\* one character and UNKNOWN holds at least 30% of them, and emitting it does
\* not make the call fail.
C15_WarningAtThirtyPercent ==
    (pc \in Finished /\ pc # "AttributeError") =>
        /\ warning <=> (BodyChars > 0 /\ 10 * UnknownChars >= 3 * BodyChars)
        /\ pc # "MarkupError in preview"

\* m occurs in t, letter case ignored
OccursIn(m, t) ==
    \E k \in 0..(Len(t) - Len(m)) :
        \A i \in 1..Len(m) : upper_char(t[k + i]) = upper_char(m[i])

\* t opens with m, letter case ignored
KeyOpensWith(m, t) ==
    Len(m) <= Len(t) /\ \A i \in 1..Len(m) : upper_char(t[i]) = upper_char(m[i])

Range(f) == {f[i] : i \in 1..Len(f)}

SampleMarkers == Range(meta_text_markers)

RegulatoryMarkers == Range(meta_regulatory_markers)

CopyrightMarkers == Range(meta_copyright_markers)

\* C17: classify_section_role answers 'meta' exactly when (1) the key has
\* 'unknown' and the text a sample, regulatory or copyright marker, or (2) the
\* key has 'sample policy' or 'office of insurance regulation', or (3) the key
\* opens with a form prefix and the text has a copyright or sample marker, or
\* (4) the text has a sample or regulatory marker; otherwise 'substantive';
\* letter case is ignored and a null key or text counts as empty.
C17_MetaExactlyByTheFourRules ==
    role # "none" =>
        LET k == IF section_key = None THEN <<>> ELSE section_key
            t == IF raw_text = None THEN <<>> ELSE raw_text
            has(ms) == \E m \in ms : OccursIn(m, t)
            rule1 == /\ OccursIn(<<"u", "n", "k", "n", "o", "w", "n">>, k)
                     /\ has(SampleMarkers \cup RegulatoryMarkers \cup CopyrightMarkers)
            rule2 == \E m \in Range(meta_names) : OccursIn(m, k)
            rule3 == /\ \E m \in Range(form_like) : KeyOpensWith(m, k)
                     /\ has(CopyrightMarkers \cup SampleMarkers)
            rule4 == has(SampleMarkers \cup RegulatoryMarkers)
        IN  /\ role \in {"meta", "substantive"}
            /\ role = "meta" <=> (rule1 \/ rule2 \/ rule3 \/ rule4)

\* a form page with a copyright line and no other marker is meta
C17_Witness ==
    role = "meta" /\ section_key = K_HO_208TX /\ raw_text = X_ISO

\* the role of every section of a map, in map order
RolesOf(m) == [n \in 1..Len(m) |-> classify_section_role(m[n][1], m[n][2])]

\* C16: a call of split_into_sections on the text of the first call ends as
\* the first call did and returns the same keys in the same order with the
\* same bodies, hence with the same roles, whatever was analysed in between.
C16_SameTextSameSections ==
    (pc \in Finished /\ calls > 1 /\ text = first_call.text) =>
        /\ pc = first_call.pc
        /\ pc # "AttributeError" => warning = first_call.warning
        /\ pc = "done" =>
              /\ merged = first_call.merged
              /\ RolesOf(merged) = RolesOf(first_call.merged)

\* the first document was analysed again after another one and gave two
\* sections, one of them meta
C16_Witness ==
    /\ pc = "done" /\ calls = MaxCalls /\ text = first_call.text
    /\ Len(merged) = 2
    /\ \E n \in 1..2 : RolesOf(merged)[n] = "meta"
    /\ \E n \in 1..2 : RolesOf(merged)[n] = "substantive"

\* the citation of the point, as the resolver is asked for it
Trimmed(c) == IF c \in {Absent, None} THEN <<>> ELSE strip(c)

Blank(c) == Trimmed(c) = <<>>

Hit(c) == find_section_for_citation(Trimmed(c), section_map).status = "match"

MatchOf(c) == find_section_for_citation(Trimmed(c), section_map)

\* C18: has_linkable_citation is true exactly when the citation is not blank
\* and the resolver hits for the trimmed citation; section_name and
\* section_text are non-null exactly then and are those of the resolver's
\* match; for an absent, null or empty citation all three are false or null.
C18_LinkedExactlyOnHit ==
    point # NoPoint =>
        /\ ~display.raised
        /\ display.has_linkable_citation <=> (~Blank(point.citation) /\ Hit(point.citation))
        /\ display.section_name # None <=> display.has_linkable_citation
        /\ display.section_text # None <=> display.has_linkable_citation
        /\ display.has_linkable_citation =>
              /\ display.section_name = MatchOf(point.citation).section_name
              /\ display.section_text = MatchOf(point.citation).section_text
        /\ point.citation \in {Absent, None, <<>>} =>
              /\ ~display.has_linkable_citation
              /\ display.section_name = None
              /\ display.section_text = None

\* a padded citation was linked to the section of its trimmed form
C18_Witness ==
    /\ point # NoPoint /\ point.citation = C_Coverage_A_padded
    /\ display.has_linkable_citation
    /\ display.section_name = K_COVERAGE_A
    /\ Len(section_map) = MaxKeys

\* C19 as stated: point_text is the trimmed text; citation_text is the
\* trimmed citation, or null for an absent, null, empty or whitespace-only
\* citation.
C19_TrimmedOrNull ==
    (point # NoPoint /\ point.text # None) =>
        /\ display.point_text = Trimmed(point.text)
        /\ display.citation_text = IF Blank(point.citation) THEN None
                                   ELSE Trimmed(point.citation)

\* C19, amended: point_text is the trimmed text; citation_text is null for
\* an absent, null or empty citation and the trimmed citation otherwise,
\* which is the empty string for a whitespace-only citation, and it is the
\* trimmed citation also when no section is linked.
C19_TrimmedOrNullUnlessBlank ==
    (point # NoPoint /\ point.text # None) =>
        /\ display.point_text = Trimmed(point.text)
        /\ display.citation_text = IF point.citation \in {Absent, None, <<>>} THEN None
                                   ELSE Trimmed(point.citation)

\* a whitespace-only citation came back as the empty string, and a padded
\* one that resolves to nothing came back trimmed
C19_Witness ==
    /\ point # NoPoint /\ point.text = P_Coverage_text
    /\ \/ point.citation = C_blank /\ display.citation_text = <<>>
       \/ /\ point.citation = C_Coverage_A_padded
          /\ ~display.has_linkable_citation
          /\ display.citation_text = C_Coverage_A

\* the entries of cits at the positions from i on that are in S, in order
RECURSIVE Chosen(_, _, _)
Chosen(cits, S, i) ==
    IF i > Len(cits) THEN <<>>
    ELSE IF i \in S THEN <<cits[i]>> \o Chosen(cits, S, i + 1)
    ELSE Chosen(cits, S, i + 1)

\* the citations of the angle
Given == angle.citations.list

NonBlank == {i \in 1..Len(Given) : ~Blank(Given[i])}

\* C20: the non-blank citations of the angle, trimmed, are partitioned in
\* input order: those the resolver hits are in linked_citations with the
\* section of their own resolution, the others in unlinked_citations; blank
\* entries are in neither list.
C20_CitationsPartitioned ==
    angle # NoAngle =>
        LET hits   == Chosen(Given, {i \in NonBlank : Hit(Given[i])}, 1)
            misses == Chosen(Given, {i \in NonBlank : ~Hit(Given[i])}, 1)
        IN  /\ ~angle_display.raised
            /\ angle_display.linked_citations =
                  [n \in 1..Len(hits) |->
                      [citation_text |-> Trimmed(hits[n]),
                       section_name |-> MatchOf(hits[n]).section_name,
                       section_text |-> MatchOf(hits[n]).section_text]]
            /\ angle_display.unlinked_citations =
                  [n \in 1..Len(misses) |-> Trimmed(misses[n])]
            /\ Len(angle_display.linked_citations) + Len(angle_display.unlinked_citations)
                  = Cardinality(NonBlank)

\* an angle that names the same citation twice has it twice in the list
C20_Witness ==
    /\ angle # NoAngle
    /\ Len(Given) = MaxCitations
    /\ \/ /\ Len(angle_display.linked_citations) = MaxCitations
          /\ angle_display.linked_citations[1] = angle_display.linked_citations[2]
       \/ /\ Len(angle_display.unlinked_citations) = MaxCitations
          /\ angle_display.unlinked_citations[1] = angle_display.unlinked_citations[2]

HeadingSeparatorChars == {"-", "ndash", "mdash", ":"}

\* t opens with word, whitespace and a numeral or letter over cls that is a
\* complete token: the end of the line, whitespace or a separator follows it
CompleteToken(t, word, cls, one) ==
    /\ startswith(upper(t), word)
    /\ \E a \in 1..Len(t), b \in 1..Len(t) :
          /\ one => b = 1
          /\ Len(word) + a + b <= Len(t)
          /\ \A i \in (Len(word) + 1)..(Len(word) + a) : t[i] \in Whitespace
          /\ \A i \in (Len(word) + a + 1)..(Len(word) + a + b) : upper_char(t[i]) \in cls
          /\ \/ Len(word) + a + b = Len(t)
             \/ t[Len(word) + a + b + 1] \in Whitespace \cup HeadingSeparatorChars

\* C25: a line with a lowercase letter or a period is a heading only if it
\* opens with SECTION and a complete roman numeral or with COVERAGE and a
\* complete single letter; 'Coverage applies to the dwelling.' and 'Section
\* information follows.' are no headings.
C25_NumeralIsCompleteToken ==
    (/\ classified /\ is_heading
     /\ \E i \in 1..Len(line) : line[i] \in LowerLetters \cup {"."})
    => \/ CompleteToken(strip(line), W_SECTION, RomanChars, FALSE)
       \/ CompleteToken(strip(line), W_COVERAGE, UpperLetters, TRUE)

\* C26: a heading that opens with neither structural prefix has, after
\* leading characters that are no letters, only uppercase letters, digits,
\* whitespace and , & ( ) ' / -; 'NOTICE: IMPORTANT' is no heading.
C26_AllCapsShapeAfterFirstLetter ==
    (classified /\ is_heading /\ NoStructuralPrefix(strip(line))) =>
        \E j \in 1..Len(strip(line)) :
            /\ strip(line)[j] \in UpperLetters
            /\ \A i \in 1..(j - 1) :
                  strip(line)[i] \notin UpperLetters \cup LowerLetters
            /\ \A i \in (j + 1)..Len(strip(line)) :
                  strip(line)[i] \in UpperLetters \cup DigitChars \cup Whitespace
                                     \cup {",", "&", "(", ")", "'", "/", "-"}

\* c is SECTION, a space and a roman numeral, and nothing else
BareSectionNumeral(c) ==
    /\ startswith(c, W_SECTION \o <<" ">>)
    /\ Len(c) > Len(W_SECTION) + 1
    /\ \A i \in (Len(W_SECTION) + 2)..Len(c) : c[i] \in RomanChars

\* C27: a citation that is only SECTION <roman>, and that misses the exact,
\* prefix and substring rungs, resolves to absent: no part of the numeral is
\* taken as <rest>.
C27_NumeralIsNotRest ==
    (/\ Called /\ BareSectionNumeral(NormCitation)
     /\ ExactKeys = {} /\ PrefixKeys = {} /\ SubstringKeys = {}) =>
        result.status = "None"

\* the heading lines of the document that normalize to key
HeadingLinesOf(key) ==
    {i \in 1..Len(lines) : looks_like_heading(lines[i]) /\ heading_key(lines[i]) = key}

\* C28: headings that normalize to the same key share one entry: no key is
\* twice in the sections, and a step of the scan leaves every entry in its
\* place with the lines it held as the beginning of the lines it holds, so
\* that a later occurrence of a heading overwrites and discards nothing.
C28_RepeatedHeadingAppends ==
    /\ [](\A n \in 1..Len(sections), o \in 1..Len(sections) :
             sections[n][1] = sections[o][1] => n = o)
    /\ [][pc = "loop" =>
             \A n \in 1..Len(sections) :
                 /\ n <= Len(sections')
                 /\ sections'[n][1] = sections[n][1]
                 /\ Len(sections[n][2]) <= Len(sections'[n][2])
                 /\ SubSeq(sections'[n][2], 1, Len(sections[n][2])) = sections[n][2]]_vars

\* a heading came twice, with text after the first occurrence, and the text
\* is in the returned map
C28_Witness ==
    /\ pc = "done"
    /\ \E n \in 1..Len(merged) :
          /\ Cardinality(HeadingLinesOf(merged[n][1])) >= 2
          /\ merged[n][1] # UNKNOWN_SECTION_NAME

(***************************************************************************)
(* citation_linking.build_section_text_map and create_session_section_map  *)
(***************************************************************************)
MaxListed == 2

EXCLUDED_SECTIONS == {K_UNKNOWN}

\* the excluded names are copied as well
build_section_text_map_keeps_unknown(raw) ==
    IF raw = <<>> THEN <<>>
    ELSE SelectSeq(raw, LAMBDA item : TRUE)

\* section_map[section_name] = section_text for the names that are not excluded
build_section_text_map(raw) ==
    IF raw = <<>> THEN <<>>
    ELSE SelectSeq(raw, LAMBDA item : item[1] \notin EXCLUDED_SECTIONS)

\* section_names after both loops: `if name: section_names.add(name)`
section_names(policy) ==
    LET listed == policy.sections_substantive \o policy.sections_meta
    IN  {listed[n].section_name : n \in 1..Len(listed)} \ {None, <<>>}

\* the raw sections whose name normalizes as section_name does, in the order
\* of raw_sections.items()
normalized_hits(raw, section_name) ==
    {n \in 1..Len(raw) : normalize_key(raw[n][1]) = normalize_key(section_name)}

\* only a raw section of exactly that name is taken
session_entry_exact_only(session_map, raw, section_name) ==
    IF dict_has(raw, section_name)
    THEN dict_set(session_map, section_name, dict_get(raw, section_name))
    ELSE session_map

\* one pass of `for section_name in section_names`
session_entry(session_map, raw, section_name) ==
    IF dict_has(raw, section_name)
    THEN dict_set(session_map, section_name, dict_get(raw, section_name))
    ELSE IF normalized_hits(raw, section_name) # {}
    THEN dict_set(session_map, section_name,
                  raw[MinOf(normalized_hits(raw, section_name))][2])
    ELSE session_map

\* the loop over the set section_names; the set is iterated in the order in
\* which its members stand in order
RECURSIVE session_loop(_, _, _, _)
session_loop(order, names, raw, session_map) ==
    IF order = <<>> THEN session_map
    ELSE IF Head(order) \in names
    THEN session_loop(Tail(order), names, raw,
                      session_entry(session_map, raw, Head(order)))
    ELSE session_loop(Tail(order), names, raw, session_map)

create_session_section_map(policy, raw, order) ==
    session_loop(order, section_names(policy), raw, <<>>)

N_exclusions_padded == <<" ", "e", "x", "c", "l", "u", "s", "i", "o", "n", "s">>

RawKeyPool == <<K_UNKNOWN, K_EXCLUSIONS, K_Exclusions>>

RawItemOf(i) == <<RawKeyPool[i], <<"r", Digits[i]>> >>

RECURSIVE RawMapsOfLen(_)
RawMapsOfLen(n) ==
    IF n = 0 THEN { <<>> }
    ELSE { Append(p[1], RawItemOf(p[2])) :
             p \in {q \in RawMapsOfLen(n - 1) \X (1..Len(RawKeyPool)) :
                       ~dict_has(q[1], RawKeyPool[q[2]])} }

RawMaps == UNION {RawMapsOfLen(n) : n \in 0..MaxKeys}

\* the names a policy result lists: a name of a raw section, a name that
\* differs from the raw names in case and spacing, a name of no raw section,
\* and a section without a name
ListedNames == {K_EXCLUSIONS, N_exclusions_padded, K_CONDITIONS}

SectionDicts == {[section_name |-> n] : n \in ListedNames \cup {None}}

RECURSIVE ListsOfLen(_)
ListsOfLen(n) ==
    IF n = 0 THEN { <<>> }
    ELSE { Append(p[1], p[2]) : p \in ListsOfLen(n - 1) \X SectionDicts }

PolicyResults ==
    {[sections_substantive |-> sub, sections_meta |-> meta] :
        sub \in UNION {ListsOfLen(n) : n \in 0..MaxListed},
        meta \in {<<>>, <<[section_name |-> N_exclusions_padded]>>}}

\* the orders in which a process may iterate a set of these names: the order
\* follows the hashes of the strings, which change with the hash seed of the
\* process
HashOrders ==
    {o \in [1..Cardinality(ListedNames) -> ListedNames] :
        \A n \in DOMAIN o, m \in DOMAIN o : o[n] = o[m] => n = m}

InitSession ==
    /\ raw_sections \in RawMaps
    /\ policy_result \in PolicyResults
    /\ hash_order \in HashOrders
    /\ built = "no"
    /\ ResolverIdle
    /\ SectioningIdle
    /\ HeadingIdle
    /\ RoleIdle
    /\ DisplayIdle
    /\ LLMIdle
    /\ PersistIdle

\* section_map = build_section_text_map(raw_sections)
BuildTextMap ==
    /\ built = "no"
    /\ section_map' = build_section_text_map(raw_sections)
    /\ built' = "text_map"
    /\ UNCHANGED <<raw_sections, policy_result, hash_order>>
    /\ UNCHANGED <<citation, result, op, edits, first, between>>
    /\ UNCHANGED <<sectioning_vars, heading_vars, role_vars, display_vars,
                   llm_vars, persist_vars>>

\* section_map = create_session_section_map(policy_result, raw_sections)
CreateSession ==
    /\ built = "no"
    /\ section_map' =
           create_session_section_map(policy_result, raw_sections, hash_order)
    /\ built' = "session_map"
    /\ UNCHANGED <<raw_sections, policy_result, hash_order>>
    /\ UNCHANGED <<citation, result, op, edits, first, between>>
    /\ UNCHANGED <<sectioning_vars, heading_vars, role_vars, display_vars,
                   llm_vars, persist_vars>>

\* a citation is resolved against the map of the session
ResolveInSession ==
    /\ built = "session_map"
    /\ op = "init"
    /\ Resolve(C_EXCL)

NextSession ==
    \/ BuildTextMap
    \/ CreateSession
    \/ ResolveInSession

SpecSession == InitSession /\ [][NextSession]_vars

\* C21: the map build_section_text_map returns holds the entries of
\* raw_sections whose key is not 'UNKNOWN', each with its key and its text, in
\* the order of raw_sections and nothing else; an empty raw_sections gives an
\* empty map; raw_sections is as it was.
C21_TextMapIsRawWithoutUnknown ==
    [][(built = "no" /\ built' = "text_map") =>
          LET kept == {n \in 1..Len(raw_sections) : raw_sections[n][1] # K_UNKNOWN}
          IN  /\ raw_sections' = raw_sections
              /\ section_map' = PickFrom(raw_sections, kept, 1)
              /\ (raw_sections = <<>> => section_map' = <<>>)]_vars

\* a map was built from raw sections that hold UNKNOWN before another name
C21_Witness ==
    /\ built = "text_map"
    /\ Len(raw_sections) >= 2
    /\ raw_sections[1][1] = K_UNKNOWN
    /\ Len(section_map) = Len(raw_sections) - 1

\* the raw sections a listed name stands for
RawFor(name) ==
    {n \in 1..Len(raw_sections) :
        \/ raw_sections[n][1] = name
        \/ normalize_key(raw_sections[n][1]) = normalize_key(name)}

\* C22: the keys of the session map are the listed section names (of
\* sections_substantive and sections_meta) for which raw_sections has a key
\* equal to the name or equal after normalization, each once; a key maps to
\* the text of such a raw section, the one of exactly that name if there is
\* one; other names and other raw sections are not in the map.
C22_SessionMapKeysAndTexts ==
    built = "session_map" =>
        LET listed == policy_result.sections_substantive \o policy_result.sections_meta
            names  == {listed[n].section_name : n \in 1..Len(listed)}
        IN  /\ Range(dict_keys(section_map)) =
                   {name \in names \ {None, <<>>} : RawFor(name) # {}}
            /\ \A n \in 1..Len(section_map), m \in 1..Len(section_map) :
                   section_map[n][1] = section_map[m][1] => n = m
            /\ \A n \in 1..Len(section_map) :
                   /\ \E r \in RawFor(section_map[n][1]) :
                          section_map[n][2] = raw_sections[r][2]
                   /\ \A r \in 1..Len(raw_sections) :
                          raw_sections[r][1] = section_map[n][1] =>
                              section_map[n][2] = raw_sections[r][2]

\* one listed name is in the map through normalization only, another listed
\* name has no raw section, and a raw section is not listed
C22_Witness ==
    /\ built = "session_map"
    /\ \E n \in 1..Len(section_map) : ~dict_has(raw_sections, section_map[n][1])
    /\ \E n \in 1..Len(policy_result.sections_substantive) :
          /\ policy_result.sections_substantive[n].section_name \in ListedNames
          /\ ~dict_has(section_map, policy_result.sections_substantive[n].section_name)
    /\ \E r \in 1..Len(raw_sections) :
          \A n \in 1..Len(section_map) :
              section_map[n][2] # raw_sections[r][2]

\* the listed names that have a raw section, in the order in which
\* policy_result lists them, each at its first place
RECURSIVE listed_order(_, _)
listed_order(listed, seen) ==
    IF listed = <<>> THEN <<>>
    ELSE IF /\ Head(listed).section_name \notin seen \cup {None, <<>>}
            /\ RawFor(Head(listed).section_name) # {}
    THEN <<Head(listed).section_name>> \o
             listed_order(Tail(listed), seen \cup {Head(listed).section_name})
    ELSE listed_order(Tail(listed), seen)

\* C30: the keys of the session map stand in the order in which policy_result
\* lists the sections, whatever the process, so that equal arguments give
\* equal key orders.
C30_ReproducibleKeyOrder ==
    built = "session_map" =>
        dict_keys(section_map) =
            listed_order(policy_result.sections_substantive \o
                             policy_result.sections_meta, {})

(***************************************************************************)
(* The sections of a document, put into a section text map and looked up   *)
(* by their own names                                                      *)
(***************************************************************************)
L_Coverage_A_ndash_Dwelling == <<"C", "o", "v", "e", "r", "a", "g", "e", " ", "A", " ", "ndash", " ", "D", "w", "e", "l", "l", "i", "n", "g">>

L_LOSS_mdash_SETTLEMENT == <<"L", "O", "S", "S", " ", "mdash", " ", " ", "S", "E", "T", "T", "L", "E", "M", "E", "N", "T">>

L_padded_body == <<"\t", "p", "a", "i", "d", " ", "mdash", " ", " ", "i", "n", " ", "f", "u", "l", "l", " ">>

PipelineLines ==
    { L_COVERAGE_A, L_Coverage_A_ndash_Dwelling, L_Section_I_Exclusions,
      L_LOSS_mdash_SETTLEMENT, L_DECLARATIONS, L_We_cover, L_padded_body }

PipelineTexts ==
    UNION { {join_lines(d) : d \in [1..n -> PipelineLines]} : n \in 0..MaxLines }

InitPipeline ==
    /\ text \in PipelineTexts
    /\ lines = <<>>
    /\ idx = 0
    /\ current_key = UNKNOWN_SECTION_NAME
    /\ sections = <<>>
    /\ merged = <<>>
    /\ warning = FALSE
    /\ pc = "start"
    /\ calls = 1
    /\ first_call = NoOutcome
    /\ ResolverIdle
    /\ HeadingIdle
    /\ RoleIdle
    /\ DisplayIdle
    /\ LaterIdle

\* section_map = build_section_text_map(split_into_sections(text))
BuildFromSections ==
    /\ pc = "done"
    /\ built = "no"
    /\ raw_sections' = merged
    /\ section_map' = build_section_text_map(merged)
    /\ built' = "text_map"
    /\ UNCHANGED <<policy_result, hash_order>>
    /\ UNCHANGED <<citation, result, op, edits, first, between>>
    /\ UNCHANGED <<sectioning_vars, heading_vars, role_vars, display_vars,
                   llm_vars, persist_vars>>

\* find_section_for_citation(k, section_map) for a key k of the sections
ResolveKey ==
    /\ built = "text_map"
    /\ op = "init"
    /\ \E n \in 1..Len(merged) :
          /\ merged[n][1] # UNKNOWN_SECTION_NAME
          /\ Resolve(merged[n][1])

NextPipeline ==
    \/ SplitStart
    \/ SplitHeading
    \/ SplitBody
    \/ SplitMerge
    \/ BuildFromSections
    \/ ResolveKey

SpecPipeline == InitPipeline /\ [][NextPipeline]_vars

\* C29: a key other than 'UNKNOWN' of the sections of a document, resolved
\* against the section text map built from those sections, hits on the exact
\* rung and returns that key and the text the sections hold for it; and
\* _canonical_key and _normalize_key give the same string for the text of
\* the document and for each of its lines.
C29_SectionKeysRoundTrip ==
    /\ (built = "text_map" /\ op = "first") =>
           /\ dict_has(merged, citation)
           /\ result = [status |-> "match", rung |-> "exact",
                        section_name |-> citation,
                        section_text |-> dict_get(merged, citation)]
    /\ canonical_key(text) = normalize_key(text)
    /\ \A n \in 1..Len(lines) : canonical_key(lines[n]) = normalize_key(lines[n])

\* a document with text before its first heading and a section under a
\* heading with a dash that is not a hyphen; that section was looked up
C29_Witness ==
    /\ built = "text_map"
    /\ op = "first"
    /\ dict_has(merged, UNKNOWN_SECTION_NAME)
    /\ Len(section_map) = Len(merged) - 1
    /\ \E n \in 1..Len(lines) :
          /\ \E i \in 1..Len(lines[n]) : lines[n][i] \in {"ndash", "mdash"}
          /\ looks_like_heading(lines[n])
          /\ heading_key(lines[n]) = citation

(***************************************************************************)
(* config.get_settings                                                     *)
(***************************************************************************)
V_true == <<"t", "r", "u", "e">>

V_TRUE_padded == <<" ", "T", "R", "U", "E", " ">>

V_1 == <<"1">>

V_yes == <<"y", "e", "s">>

V_on == <<"o", "n">>

V_0 == <<"0">>

V_false == <<"f", "a", "l", "s", "e">>

V_no == <<"n", "o">>

V_off == <<"o", "f", "f">>

V_maybe == <<"m", "a", "y", "b", "e">>

V_sk_test == <<"s", "k", "-", "t", "e", "s", "t">>

\* a flag of the environment: ConfigError for a value that is no boolean
get_bool_env(raw, default) ==
    IF raw = None \/ raw = <<>> THEN [raised |-> FALSE, value |-> default]
    ELSE IF lower(strip(raw)) \in {V_1, V_true, V_yes, V_on}
    THEN [raised |-> FALSE, value |-> TRUE]
    ELSE IF lower(strip(raw)) \in {V_0, V_false, V_no, V_off}
    THEN [raised |-> FALSE, value |-> FALSE]
    ELSE [raised |-> TRUE, value |-> default]

ConfigError == [status |-> "ConfigError", safe_mode |-> FALSE, persist_raw_text |-> FALSE]

\* the settings of the environment e: persist_raw_text = False if safe_mode
\* else persist_raw_text_default; ConfigError for an invalid flag or a
\* missing API key
get_settings(e) ==
    IF \/ get_bool_env(e.SAFE_MODE, FALSE).raised
       \/ get_bool_env(e.PERSIST_RAW_TEXT, TRUE).raised
       \/ e.OPENAI_API_KEY = None
       \/ e.OPENAI_API_KEY = <<>>
    THEN ConfigError
    ELSE [status |-> "ok",
          safe_mode |-> get_bool_env(e.SAFE_MODE, FALSE).value,
          persist_raw_text |->
              IF get_bool_env(e.SAFE_MODE, FALSE).value THEN FALSE
              ELSE get_bool_env(e.PERSIST_RAW_TEXT, TRUE).value]

\* @lru_cache(maxsize=1): the settings of the first call that returned
cached_get_settings(cache, e) ==
    IF cache.status = "ok" THEN cache ELSE get_settings(e)

(***************************************************************************)
(* llm_client.call_llm_json                                                *)
(***************************************************************************)
MaxRetries == 3

R_object == <<"{", "\"", "a", "\"", ":", " ", "1", "}">>

R_object_padded == <<" ", "{", "}", "\n">>

R_list == <<"[", "1", "]">>

R_truncated == <<"{", "\"", "a", "\"", ":", " ", "1">>

R_prose == <<"S", "u", "r", "e", "!">>

\* a JSON number without sign, fraction or exponent
is_number(t) ==
    /\ t # <<>>
    /\ \A n \in 1..Len(t) : t[n] \in DigitChars
    /\ (Len(t) > 1 => t[1] # "0")

\* t is {"key": number}, with q the place of the quote that ends the key
is_pair_at(t, q) ==
    /\ t[q] = "\""
    /\ \A n \in 3..(q - 1) : t[n] \notin {"\"", "\\"}
    /\ LET rest == strip(SubSeq(t, q + 1, Len(t) - 1))
       IN  /\ rest # <<>>
           /\ rest[1] = ":"
           /\ is_number(strip(Tail(rest)))

\* json.loads(raw) for the JSON texts {}, {"key": number} and [number], with
\* white space around them; TypeError for None, JSONDecodeError for other text
json_loads(raw) ==
    IF raw = None THEN [error |-> "TypeError", value |-> NoValue]
    ELSE LET t == strip(raw)
         IN  IF t = <<"{", "}">>
             THEN [error |-> "none", value |-> [type |-> "dict", items |-> <<>>]]
             ELSE IF /\ Len(t) >= 6
                     /\ t[1] = "{" /\ t[2] = "\"" /\ t[Len(t)] = "}"
                     /\ \E q \in 3..Len(t) : is_pair_at(t, q)
             THEN LET q == CHOOSE q \in 3..Len(t) : is_pair_at(t, q)
                  IN  [error |-> "none",
                       value |-> [type |-> "dict",
                                  items |-> << <<SubSeq(t, 3, q - 1),
                                                strip(Tail(strip(SubSeq(t, q + 1, Len(t) - 1))))>> >>]]
             ELSE IF /\ Len(t) >= 3
                     /\ t[1] = "[" /\ t[Len(t)] = "]"
                     /\ is_number(strip(SubSeq(t, 2, Len(t) - 1)))
             THEN [error |-> "none",
                   value |-> [type |-> "list",
                              items |-> <<strip(SubSeq(t, 2, Len(t) - 1))>>]]
             ELSE [error |-> "JSONDecodeError", value |-> NoValue]

\* what an attempt gets from the API: a response with its content, which may
\* be None, or an exception of the client (time-out, rate limit, no choices)
Outcomes ==
    {[kind |-> "response", content |-> c] :
        c \in {R_object, R_object_padded, R_list, R_truncated, R_prose, None}}
    \cup {[kind |-> "exception", content |-> None]}

\* the attempt returns: the response came and json.loads took its content
attempt_returns(outcome) ==
    outcome.kind = "response" /\ json_loads(outcome.content).error = "none"

\* the attempt before the last counts as the last
is_last_attempt_one_early(a, retries) == a >= retries - 1

\* `if attempt == max_retries`
is_last_attempt(a, retries) == a = retries

LLMEnvs ==
    {[SAFE_MODE |-> safe, PERSIST_RAW_TEXT |-> None, OPENAI_API_KEY |-> key] :
        safe \in {None, V_maybe}, key \in {None, V_sk_test}}

InitLLM ==
    /\ max_retries \in 0..MaxRetries
    /\ attempt = 0
    /\ last_raw = None
    /\ api_calls = <<>>
    /\ slept = <<>>
    /\ parsed = NoValue
    /\ llm_pc = "start"
    /\ env \in LLMEnvs
    /\ settings = NoSettings
    /\ disk = <<>>
    /\ ResolverIdle
    /\ SectioningIdle
    /\ HeadingIdle
    /\ RoleIdle
    /\ DisplayIdle
    /\ SessionIdle

\* _init_wandb(), which reads the settings if wandb is installed; last_raw =
\* None; the loop starts with attempt 1, and without an attempt the function
\* raises LLMCallError
LLMStart ==
    /\ llm_pc = "start"
    /\ \E wandb_available \in BOOLEAN :
          IF wandb_available /\ cached_get_settings(settings, env).status = "ConfigError"
          THEN /\ llm_pc' = "ConfigError"
               /\ UNCHANGED <<attempt, settings>>
          ELSE /\ settings' = IF wandb_available
                              THEN cached_get_settings(settings, env) ELSE settings
               /\ IF max_retries >= 1
                  THEN attempt' = 1 /\ llm_pc' = "attempt"
                  ELSE attempt' = attempt /\ llm_pc' = "LLMCallError"
    /\ last_raw' = None
    /\ UNCHANGED <<max_retries, api_calls, slept, parsed, env, disk>>
    /\ UNCHANGED <<resolver_vars, sectioning_vars, heading_vars, role_vars,
                   display_vars, session_vars>>

\* one pass of the loop up to its return, its raise or its time.sleep
LLMAttempt ==
    /\ llm_pc = "attempt"
    /\ IF cached_get_settings(settings, env).status = "ConfigError"
       THEN /\ llm_pc' = "ConfigError"
            /\ UNCHANGED <<settings, api_calls, last_raw, parsed>>
       ELSE /\ settings' = cached_get_settings(settings, env)
            /\ \E outcome \in Outcomes :
                  /\ api_calls' = Append(api_calls, outcome)
                  /\ last_raw' = IF outcome.kind = "response"
                                 THEN outcome.content ELSE last_raw
                  /\ IF attempt_returns(outcome)
                     THEN /\ parsed' = json_loads(outcome.content).value
                          /\ llm_pc' = "returned"
                     ELSE /\ parsed' = parsed
                          /\ llm_pc' = IF is_last_attempt(attempt, max_retries)
                                       THEN "LLMCallError" ELSE "sleep"
    /\ UNCHANGED <<max_retries, attempt, slept, env, disk>>
    /\ UNCHANGED <<resolver_vars, sectioning_vars, heading_vars, role_vars,
                   display_vars, session_vars>>

\* time.sleep(2**attempt), then the next pass of the loop
LLMSleep ==
    /\ llm_pc = "sleep"
    /\ slept' = Append(slept, 2 ^ attempt)
    /\ attempt' = attempt + 1
    /\ llm_pc' = "attempt"
    /\ UNCHANGED <<max_retries, last_raw, api_calls, parsed, env, settings, disk>>
    /\ UNCHANGED <<resolver_vars, sectioning_vars, heading_vars, role_vars,
                   display_vars, session_vars>>

NextLLM ==
    \/ LLMStart
    \/ LLMAttempt
    \/ LLMSleep

SpecLLM == InitLLM /\ [][NextLLM]_vars

\* the call goes on: the client gives up an API call after its time-out and
\* a sleep ends
SpecLLMFair == SpecLLM /\ WF_vars(NextLLM)

LLMTerminated == llm_pc \in {"returned", "LLMCallError", "ConfigError"}

\* the content of the last response among the API calls, None without one
RECURSIVE last_response_of(_)
last_response_of(log) ==
    IF log = <<>> THEN None
    ELSE IF log[Len(log)].kind = "response" THEN log[Len(log)].content
    ELSE last_response_of(SubSeq(log, 1, Len(log) - 1))

\* C23: call_llm_json makes at most max_retries API calls and ends. Every
\* attempt but the latest failed, and the waits so far are 2, 4, ... seconds,
\* one after each failed attempt that was not the last. It returns with the
\* value json.loads gives for the response of the latest attempt; it raises
\* LLMCallError after max_retries failed attempts, with the content of the
\* last response and no wait after the last attempt; after a ConfigError no
\* API call and no wait follow.
C23_RetriesThenReturnsOrRaises ==
    /\ [](/\ Len(api_calls) <= max_retries
          /\ \A n \in 1..(Len(api_calls) - 1) : ~attempt_returns(api_calls[n])
          /\ \A n \in 1..Len(slept) : slept[n] = 2 ^ n
          /\ Len(slept) <= Len(api_calls)
          /\ (llm_pc = "returned" =>
                 /\ api_calls # <<>>
                 /\ attempt_returns(api_calls[Len(api_calls)])
                 /\ parsed = json_loads(api_calls[Len(api_calls)].content).value
                 /\ Len(slept) = Len(api_calls) - 1)
          /\ (llm_pc = "LLMCallError" =>
                 /\ Len(api_calls) = max_retries
                 /\ \A n \in 1..Len(api_calls) : ~attempt_returns(api_calls[n])
                 /\ last_raw = last_response_of(api_calls)
                 /\ Len(slept) = IF max_retries = 0 THEN 0 ELSE max_retries - 1))
    /\ [][llm_pc = "ConfigError" =>
              /\ llm_pc' = "ConfigError"
              /\ api_calls' = api_calls
              /\ slept' = slept]_vars
    /\ <>LLMTerminated

\* three attempts: a response that is no JSON, a time-out, then a JSON object
C23_Witness ==
    /\ llm_pc = "returned"
    /\ Len(api_calls) = 3
    /\ api_calls[1].kind = "response"
    /\ api_calls[2].kind = "exception"
    /\ slept = <<2, 4>>
    /\ parsed.type = "dict"

(***************************************************************************)
(* demo_api.run_policy_analysis: the settings are read, the policy is      *)
(* split into sections, and summarize_policy writes the summary JSON       *)
(***************************************************************************)
SafeModeLines == {L_COVERAGE_A, L_We_cover}

SafeModeTexts ==
    UNION { {join_lines(d) : d \in [1..n -> SafeModeLines]} : n \in 0..MaxLines }

Envs ==
    {[SAFE_MODE |-> safe, PERSIST_RAW_TEXT |-> persist, OPENAI_API_KEY |-> key] :
        safe \in {None, V_true, V_TRUE_padded, V_0, V_maybe},
        persist \in {None, V_true, V_false},
        key \in {None, V_sk_test}}

InitSafeMode ==
    /\ env \in Envs
    /\ settings = NoSettings
    /\ disk = <<>>
    /\ text \in SafeModeTexts
    /\ lines = <<>>
    /\ idx = 0
    /\ current_key = UNKNOWN_SECTION_NAME
    /\ sections = <<>>
    /\ merged = <<>>
    /\ warning = FALSE
    /\ pc = "start"
    /\ calls = 1
    /\ first_call = NoOutcome
    /\ ResolverIdle
    /\ HeadingIdle
    /\ RoleIdle
    /\ DisplayIdle
    /\ SessionIdle
    /\ LLMIdle

\* settings = get_settings(), which ends the analysis with ConfigError
GetSettings ==
    /\ settings.status = "none"
    /\ settings' = get_settings(env)
    /\ UNCHANGED <<env, disk>>
    /\ UNCHANGED <<resolver_vars, sectioning_vars, heading_vars, role_vars,
                   display_vars, session_vars, llm_vars>>

\* the dict of one section in the summary JSON; the fields of the LLM's
\* summary are left out
section_dict(section_name, section_text) ==
    [section_name |-> section_name,
     raw_text |-> section_text,
     section_role |-> classify_section_role(section_name, section_text)]

\* the loop over sections.items() and out_path.write_text(...); nothing is
\* written if summarize_section raises for a section
WriteSummary ==
    /\ settings.status = "ok"
    /\ pc = "done"
    /\ \E summarized \in BOOLEAN :
          IF summarized \/ merged = <<>>
          THEN /\ disk' = [n \in 1..Len(merged) |->
                              section_dict(merged[n][1], merged[n][2])]
               /\ pc' = "written"
          ELSE /\ disk' = disk
               /\ pc' = "LLMCallError"
    /\ UNCHANGED <<env, settings>>
    /\ UNCHANGED <<text, lines, idx, current_key, sections, merged, warning,
                   call_vars>>
    /\ UNCHANGED <<resolver_vars, heading_vars, role_vars, display_vars,
                   session_vars, llm_vars>>

NextSafeMode ==
    \/ GetSettings
    \/ settings.status = "ok" /\ SplitStart
    \/ SplitHeading
    \/ SplitBody
    \/ SplitMerge
    \/ WriteSummary

SpecSafeMode == InitSafeMode /\ [][NextSafeMode]_vars

\* C24: with SAFE_MODE true the settings have persist_raw_text false,
\* whatever PERSIST_RAW_TEXT is, and no section of the written summary JSON
\* holds the raw text of the section.
C24_SafeModeDropsRawText ==
    (settings.status = "ok" /\ settings.safe_mode) =>
        /\ ~settings.persist_raw_text
        /\ \A n \in 1..Len(disk) : disk[n].raw_text = None

====
